---- MODULE Spec2Model ----
(***************************************************************************)
(* A model of the backuppy backup store engine: the unlock / save_if_new /  *)
(* do_cleanup lifecycle of BackupStore, the manifest tables, the manifest   *)
(* lock/unlock protocol and the SIGINT/SIGTERM cleanup handler.             *)
(***************************************************************************)
EXTENDS Integers, Sequences, FiniteSets, TLC

\* ------------------------------------------------------------------ bounds
MaxRuns == 2          \* unlock() calls in one behaviour
MaxRows == 4          \* rows of the manifest table
MaxTime == 2 * MaxRuns  \* greatest value of the clock, in half seconds
NumContents == 4      \* distinct file contents
MaxLen == 3           \* bytes of a file handed to the diff codec
MaxManifests == 4     \* manifest objects in the store when rotate_manifests is called
MaxWrites == 2        \* writes of another process to a file while save_if_new reads it

\* -------------------------------------------------------- program constants
\* the max_manifest_versions option (10 by default): with 1 the second lock of
\* a store already rotates
max_manifest_versions == 1

Paths == {"a", "b", "c"}
Contents == 1..NumContents
Modes == {0, 1}
Signals == {"SIGINT", "SIGTERM"}
SignalContents == {1, 2}        \* the contents of the runs with signals
Stores == {"s1", "s2"}          \* BackupStore objects of the process, on one backend
skip_diff_patterns == {"c"}     \* paths matched by a skip_diff_patterns regex
PreserveValues == {FALSE}

\* None of Python, for shas, uids, gids, modes and key pairs
Null == -1
\* b'', the key pair generate_key_pair returns when use_encryption is off
EmptyKey == 0
\* the bytes of a diff read as if they were a file, or a diff applied to the
\* wrong original
Garbage == -2

\* SHA-256 of a content: injective on the contents of the model
ShaOf(c) == 10 + c
Shas == {ShaOf(c) : c \in Contents}
ContentOfSha(s) == s - 10

\* bool(x) of Python for the values stored in sha and key pair columns
Truthy(x) == x # Null /\ x # EmptyKey

NoFile == [content |-> 0, uid |-> Null, gid |-> Null, mode |-> Null]
NoBlob == [orig |-> 0, new |-> 0, key |-> Null]
NoEntry == [abs_file_name |-> "", sha |-> Null, base_sha |-> Null, uid |-> Null,
            gid |-> Null, mode |-> Null, key_pair |-> Null, base_key_pair |-> Null,
            commit_timestamp |-> 0]
NoManifest == [open |-> FALSE, rows |-> <<>>, base_shas |-> {}, changed |-> FALSE]
\* BackupStore.save is not being followed on its own
IdleSaving == [pc |-> "idle", backend |-> "s3", dest |-> Null, filename |-> "",
               plain |-> [orig |-> 0, new |-> 0], key_pair |-> EmptyKey, raised |-> "none"]
\* rotate_manifests is not being followed on its own
IdleRotation == [pc |-> "idle", max_versions |-> Null, backend |-> "s3", todel |-> <<>>,
                 before |-> {}, uploaded |-> 0]
\* nothing is being sealed or opened
IdleSealer == [pc |-> "idle", plain |-> <<>>, key_pair |-> EmptyKey, use_compression |-> FALSE,
               block_size |-> 1, k |-> 0, fed |-> 0, emitted |-> 0, sealed |-> <<>>,
               hmac |-> <<>>, signature |-> <<>>, tampered |-> FALSE, j |-> 0,
               decrypted_data |-> <<>>, inflate |-> "hdr", check |-> 0, unused_data |-> <<>>,
               seen |-> <<>>, out |-> <<>>, raised |-> "none"]
\* no file is being read by save_if_new
IdleReading == [pc |-> "idle", file |-> <<>>, mtime |-> 0, enter_mtime |-> 0, block_size |-> 1,
                pass |-> 0, pos |-> 0, hashed |-> <<>>, sealed |-> <<>>, writes |-> 0,
                raised |-> "none", committed |-> FALSE, row_sha |-> <<>>,
                blob_sha |-> <<>>, blob_plain |-> <<>>]
\* no diff is being computed or applied
IdleCodec == [pc |-> "idle", orig |-> <<>>, new |-> <<>>, block_size |-> 1, k |-> 0,
              diff |-> <<>>, sha |-> <<>>, out |-> <<>>, opos |-> 0, offset |-> 0, i |-> 1,
              text |-> <<>>, buf |-> <<>>, need |-> TRUE, raised |-> "none"]

VARIABLES
  reading,          \* a save_if_new of one file while another process writes to it, IdleReading for none
  saving,           \* a call of BackupStore.save on its own, IdleSaving for none
  rotation,         \* a call of rotate_manifests on its own, IdleRotation for none
  sealer,           \* a run of compress_and_encrypt followed by decrypt_and_unpack, IdleSealer for none
  codec,            \* a run of compute_sha_and_diff followed by apply_diff, IdleCodec for none
  files,            \* the source tree: path -> file (content, uid, gid, mode) or NoFile
  blobs,            \* the store's content blobs: sha -> sealed blob or NoBlob
  manifestObjs,     \* the store's manifest.<ts> objects: records ts, rows, base_shas
  keyObjs,          \* the store's manifest-key.<ts> objects: set of ts
  use_encryption,   \* the use_encryption option of the backup set
  manifest,         \* BackupStore._manifest of each store object, NoManifest for None
  scratch,          \* the scratch directory (ScratchDir) and the files in it, {} without it
  UNLOCKED_STORE,   \* the module global _UNLOCKED_STORE: "none", "s1" or "s2"
  sigdisp,          \* disposition of SIGINT and SIGTERM: "DFL", "IGN" or "HANDLER"
  hargs,            \* dry_run / preserve_scratch bound into the installed handler
  stack,            \* call stack: frame 1 is the main program, above it nested calls
                    \* and signal handlers; a frame holds the arguments of its scope
  marked,           \* marked_files of the running backup scan
  pending_del,      \* manifest.files() - marked_files still to be tombstoned
  new_entry,        \* the entry save_if_new has built and not yet inserted
  nextKey,          \* next key pair generate_key_pair draws
  now,              \* the clock, in half seconds
  runs,             \* number of unlock() calls so far
  exitCode,         \* status of the sys.exit that ended the process, Null if none
  uploads,          \* history: manifest objects uploaded since the last unlock
  mutated,          \* history: insert_or_update or delete performed since the last unlock
  orphaned          \* history, per path: "uploaded" while a save_if_new for a path
                    \* without rows is between its upload and its insert, "pending"
                    \* once that save_if_new was aborted there, "recommitted" once a
                    \* later save_if_new has inserted the row, "no" otherwise and
                    \* after every change of the file

vars == <<reading, saving, rotation, sealer, codec, files, blobs, manifestObjs, keyObjs, use_encryption, manifest,
          scratch, UNLOCKED_STORE, sigdisp, hargs, stack, marked, pending_del,
          new_entry, nextKey, now, runs, exitCode, uploads, mutated, orphaned>>

storeVars == <<blobs, manifestObjs, keyObjs>>

\* ---------------------------------------------------------------- manifest
\* int(time.time())
IntTime(t) == t \div 2

\* select * from manifest natural left join base_shas: the row with the
\* base_sha and base_key_pair of the base_shas row of the same sha, if any
JoinRow(m, r) ==
  LET bs == {b \in m.base_shas : b.sha = r.sha} IN
  IF r.sha # Null /\ bs # {}
  THEN LET b == CHOOSE x \in bs : TRUE IN
       [abs_file_name |-> r.abs_file_name, sha |-> r.sha, base_sha |-> b.base_sha,
        uid |-> r.uid, gid |-> r.gid, mode |-> r.mode, key_pair |-> r.key_pair,
        base_key_pair |-> b.base_key_pair, commit_timestamp |-> r.commit_timestamp]
  ELSE [abs_file_name |-> r.abs_file_name, sha |-> r.sha, base_sha |-> Null,
        uid |-> r.uid, gid |-> r.gid, mode |-> r.mode, key_pair |-> r.key_pair,
        base_key_pair |-> Null, commit_timestamp |-> r.commit_timestamp]

\* the positions of the rows of a path committed at or before ts
RowsOf(m, path, ts) ==
  {i \in 1..Len(m.rows) : m.rows[i].abs_file_name = path
                          /\ m.rows[i].commit_timestamp <= ts}

\* Manifest.get_entry that returns rows[0], the oldest row
get_entry_oldest(m, path, ts) ==
  LET idx == RowsOf(m, path, ts) IN
  IF idx = {} THEN NoEntry
  ELSE LET first == CHOOSE i \in idx : \A j \in idx :
                      \/ m.rows[i].commit_timestamp < m.rows[j].commit_timestamp
                      \/ (m.rows[j].commit_timestamp = m.rows[i].commit_timestamp /\ i <= j)
       IN JoinRow(m, m.rows[first])

\* Manifest.get_entry: the last row in (commit_timestamp, rowid) order
get_entry(m, path, ts) ==
  LET idx == RowsOf(m, path, ts) IN
  IF idx = {} THEN NoEntry
  ELSE LET last == CHOOSE i \in idx : \A j \in idx :
                     \/ m.rows[j].commit_timestamp < m.rows[i].commit_timestamp
                     \/ (m.rows[j].commit_timestamp = m.rows[i].commit_timestamp /\ j <= i)
       IN JoinRow(m, m.rows[last])

\* Manifest.get_entry called with a timestamp argument (Null for None) at
\* time t: timestamp = timestamp or int(time.time())
get_entry_at(m, path, timestamp, t) ==
  get_entry(m, path, IF timestamp = Null \/ timestamp = 0 THEN IntTime(t) ELSE timestamp)

\* Manifest.get_entries_by_sha, for a full sha
get_entries_by_sha(m, sha) ==
  LET hit == SelectSeq(m.rows, LAMBDA r : r.sha = sha) IN
  [i \in 1..Len(hit) |-> JoinRow(m, hit[i])]

BaseShasAfterReplace(base_shas, entry) ==
  {b \in base_shas : b.sha # entry.sha /\ b.base_key_pair # entry.base_key_pair}
    \cup {[sha |-> entry.sha, base_sha |-> entry.base_sha,
           base_key_pair |-> entry.base_key_pair]}

\* Manifest.insert_or_update at clock t
insert_or_update(m, entry, t) ==
  [open |-> TRUE,
   rows |-> Append(m.rows,
              [abs_file_name |-> entry.abs_file_name, sha |-> entry.sha,
               uid |-> entry.uid, gid |-> entry.gid, mode |-> entry.mode,
               key_pair |-> entry.key_pair, commit_timestamp |-> IntTime(t)]),
   base_shas |-> IF Truthy(entry.base_sha)
                 THEN BaseShasAfterReplace(m.base_shas, entry)
                 ELSE {b \in m.base_shas : b.sha # entry.sha},
   changed |-> TRUE]

\* a delete that does not look for an entry of the path first
delete_unchecked(m, path, t) ==
  [m EXCEPT !.rows = Append(m.rows,
                    [abs_file_name |-> path, sha |-> Null, uid |-> Null, gid |-> Null,
                     mode |-> Null, key_pair |-> Null, commit_timestamp |-> IntTime(t)]),
            !.changed = TRUE]

\* a delete that drops the rows of the path instead of adding a tombstone
delete_dropping(m, path, t) ==
  IF RowsOf(m, path, IntTime(t)) = {} THEN m
  ELSE [m EXCEPT !.rows = SelectSeq(m.rows, LAMBDA r : r.abs_file_name # path),
                 !.changed = TRUE]

\* Manifest.delete at clock t
delete(m, path, t) ==
  IF RowsOf(m, path, IntTime(t)) = {} THEN m
  ELSE [m EXCEPT !.rows = Append(m.rows,
                    [abs_file_name |-> path, sha |-> Null, uid |-> Null, gid |-> Null,
                     mode |-> Null, key_pair |-> Null, commit_timestamp |-> IntTime(t)]),
                 !.changed = TRUE]

\* Manifest.files: group by abs_file_name, the bare column sha taken from the
\* first row of the group, in (commit_timestamp, rowid) order, that reaches
\* max(commit_timestamp)
manifest_files(m, ts) ==
  {p \in Paths :
     LET idx == RowsOf(m, p, ts) IN
     /\ idx # {}
     /\ LET first == CHOOSE i \in idx : \A j \in idx :
                       \/ m.rows[j].commit_timestamp < m.rows[i].commit_timestamp
                       \/ (m.rows[j].commit_timestamp = m.rows[i].commit_timestamp /\ i <= j)
        IN m.rows[first].sha # Null}

\* Manifest.files called with a timestamp argument (Null for None) at time t:
\* timestamp = timestamp or int(time.time())
files_at(m, timestamp, t) ==
  manifest_files(m, IF timestamp = Null \/ timestamp = 0 THEN IntTime(t) ELSE timestamp)

\* Manifest.__init__ on an empty file: _create_manifest_tables commits
NewManifest == [open |-> TRUE, rows |-> <<>>, base_shas |-> {}, changed |-> TRUE]

\* Manifest.__init__ that marks every manifest it opens as changed
OpenManifest_changed(obj) ==
  [open |-> TRUE, rows |-> obj.rows, base_shas |-> obj.base_shas, changed |-> TRUE]

\* Manifest.__init__ on a file that holds the two tables
OpenManifest(obj) ==
  [open |-> TRUE, rows |-> obj.rows, base_shas |-> obj.base_shas, changed |-> FALSE]

\* ------------------------------------------------------------ store engine
\* the plaintext of a blob: a full copy of content new (orig = 0), or a diff
\* that turns the plaintext orig into content new
LoadError == [orig |-> Null, new |-> Null]
CopyOf(c) == [orig |-> 0, new |-> c]

\* BackupStore.load: _load raises on a missing object, decrypt_and_unpack
\* raises BackupCorruptedError when the HMAC of the key pair does not match
load(bl, enc, sha, key_pair) ==
  IF sha \notin Shas \/ bl[sha] = NoBlob THEN LoadError
  ELSE IF enc /\ bl[sha].key # key_pair THEN LoadError
  ELSE [orig |-> bl[sha].orig, new |-> bl[sha].new]

\* the identity of a plaintext used as the original of a diff
AsOriginal(pt) == IF pt.orig = 0 THEN pt.new ELSE Garbage

\* apply_diff: the content written to new_file
apply_diff(orig_pt, diff_pt) ==
  IF diff_pt.orig = 0 \/ diff_pt.orig = Garbage THEN Garbage
  ELSE IF AsOriginal(orig_pt) = diff_pt.orig THEN diff_pt.new
  ELSE Garbage

\* BackupStore.restore_entry: the content written to restore_file, Garbage
\* for bytes that are not a content of the model, Null when the restore raises
restore_entry(bl, enc, entry) ==
  IF Truthy(entry.base_sha)
  THEN LET orig_pt == load(bl, enc, entry.base_sha, entry.base_key_pair)
           diff_pt == load(bl, enc, entry.sha, entry.key_pair)
       IN IF orig_pt = LoadError \/ diff_pt = LoadError THEN Null
          ELSE apply_diff(orig_pt, diff_pt)
  ELSE LET pt == load(bl, enc, entry.sha, entry.key_pair)
       IN IF pt = LoadError THEN Null
          ELSE IF pt.orig = 0 THEN pt.new ELSE Garbage

\* generate_key_pair
generate_key_pair(enc, nk) == IF enc THEN nk ELSE EmptyKey

\* the assertion of ManifestEntry.__init__
EntryAssertion(base_sha, base_key_pair) == Truthy(base_sha) = Truthy(base_key_pair)

ManifestEntry(path, sha, base_sha, file, key_pair, base_key_pair) ==
  [abs_file_name |-> path, sha |-> sha, base_sha |-> base_sha, uid |-> file.uid,
   gid |-> file.gid, mode |-> file.mode, key_pair |-> key_pair,
   base_key_pair |-> base_key_pair, commit_timestamp |-> 0]

\* _find_existing_entry_data that finds no entry
find_existing_entry_data_none(m, sha) ==
  [found |-> FALSE, raised |-> FALSE, key_pair |-> Null, base_sha |-> Null,
   base_key_pair |-> Null]

\* BackupStore._find_existing_entry_data
find_existing_entry_data(m, sha) ==
  LET entries == get_entries_by_sha(m, sha) IN
  IF Len(entries) = 0
  THEN [found |-> FALSE, raised |-> FALSE, key_pair |-> Null, base_sha |-> Null,
        base_key_pair |-> Null]
  ELSE [found |-> TRUE,
        raised |-> Cardinality({entries[i].key_pair : i \in 1..Len(entries)}) # 1,
        key_pair |-> entries[1].key_pair, base_sha |-> entries[1].base_sha,
        base_key_pair |-> entries[1].base_key_pair]

\* the outcome of save_if_new before its insert: it has raised, it has built
\* an entry (or none) without an upload, or it has built one and saved its blob
Raised(bl, nk) ==
  [raised |-> TRUE, entry |-> NoEntry, blobs |-> bl, nextKey |-> nk, saved |-> FALSE]
Built(e, bl, nk) ==
  [raised |-> FALSE, entry |-> e, blobs |-> bl, nextKey |-> nk, saved |-> FALSE]
Saved(e, bl, nk) ==
  [raised |-> FALSE, entry |-> e, blobs |-> bl, nextKey |-> nk, saved |-> TRUE]

\* the SHA-256 of the bytes of a plaintext: that of the file content for a
\* copy; the bytes of a diff are those of no file content of the model
plaintext_sha(pt) ==
  IF pt.orig = 0 THEN ShaOf(pt.new) ELSE 100 + 10 * (pt.orig + 2) + pt.new

\* a save that stores a diff under the sha of its original
save_at_base(bl, dest, pt, key_pair) ==
  [bl EXCEPT ![IF pt.orig \in Contents THEN ShaOf(pt.orig) ELSE dest] =
               [orig |-> pt.orig, new |-> pt.new, key |-> key_pair]]

\* BackupStore.save that returns without the backend having published the object
save_unpublished(bl, dest, pt, key_pair) == bl

\* BackupStore.save of a plaintext under dest with key_pair; the backend
\* _save either publishes the whole object or raises
save(bl, dest, pt, key_pair) ==
  [bl EXCEPT ![dest] = [orig |-> pt.orig, new |-> pt.new, key |-> key_pair]]

\* BackupStore._write_copy; save_ok is whether the backend _save succeeds
write_copy(m, bl, enc, nk, path, new_sha, file, force_copy, dry_run, save_ok) ==
  LET entry_data == IF force_copy
                    THEN find_existing_entry_data(NoManifest, new_sha)
                    ELSE find_existing_entry_data(m, new_sha)
      key_pair == IF entry_data.found THEN entry_data.key_pair
                  ELSE generate_key_pair(enc, nk)
      e == ManifestEntry(path, new_sha, entry_data.base_sha, file, key_pair,
                         entry_data.base_key_pair)
  IN IF entry_data.raised
        \/ ~EntryAssertion(entry_data.base_sha, entry_data.base_key_pair)
     THEN Raised(bl, nk)
     ELSE IF ~dry_run /\ ~entry_data.found
     THEN IF save_ok
          THEN Saved(e, save(bl, new_sha, CopyOf(file.content), key_pair),
                     IF enc THEN nk + 1 ELSE nk)
          ELSE Raised(bl, nk)
     ELSE Built(e, bl, nk)

\* _write_diff that on DiffTooLargeException saves the copy under the entry
\* it has built for the diff
write_diff_keeps_base(m, bl, enc, nk, path, new_sha, curr_entry, file, dry_run, too_large, save_ok) ==
  LET entry_data == find_existing_entry_data(m, new_sha)
      key_pair == IF entry_data.found THEN entry_data.key_pair
                  ELSE generate_key_pair(enc, nk)
      base_sha == IF entry_data.found THEN entry_data.base_sha
                  ELSE IF Truthy(curr_entry.base_sha) THEN curr_entry.base_sha
                  ELSE curr_entry.sha
      base_key_pair == IF entry_data.found THEN entry_data.base_key_pair
                       ELSE IF Truthy(curr_entry.base_sha) THEN curr_entry.base_key_pair
                       ELSE curr_entry.key_pair
      e == ManifestEntry(path, new_sha, base_sha, file, key_pair, base_key_pair)
      orig_pt == load(bl, enc, base_sha, base_key_pair)
  IN IF entry_data.raised \/ ~EntryAssertion(base_sha, base_key_pair)
     THEN Raised(bl, nk)
     ELSE IF entry_data.found THEN Built(e, bl, nk)
     ELSE IF orig_pt = LoadError THEN Raised(bl, nk)
     ELSE IF too_large
     THEN IF dry_run THEN Built(e, bl, nk)
          ELSE IF save_ok
          THEN Saved(e, save(bl, new_sha, CopyOf(file.content), key_pair),
                     IF enc THEN nk + 1 ELSE nk)
          ELSE Raised(bl, nk)
     ELSE IF dry_run THEN Built(e, bl, nk)
     ELSE IF save_ok
     THEN Saved(e, save(bl, new_sha, [orig |-> AsOriginal(orig_pt), new |-> file.content],
                        key_pair),
                IF enc THEN nk + 1 ELSE nk)
     ELSE Raised(bl, nk)

\* BackupStore._write_diff; too_large is whether compute_diff raises
\* DiffTooLargeException, save_ok whether the backend _save succeeds
write_diff(m, bl, enc, nk, path, new_sha, curr_entry, file, dry_run, too_large, save_ok) ==
  LET entry_data == find_existing_entry_data(m, new_sha)
      key_pair == IF entry_data.found THEN entry_data.key_pair
                  ELSE generate_key_pair(enc, nk)
      base_sha == IF entry_data.found THEN entry_data.base_sha
                  ELSE IF Truthy(curr_entry.base_sha) THEN curr_entry.base_sha
                  ELSE curr_entry.sha
      base_key_pair == IF entry_data.found THEN entry_data.base_key_pair
                       ELSE IF Truthy(curr_entry.base_sha) THEN curr_entry.base_key_pair
                       ELSE curr_entry.key_pair
      e == ManifestEntry(path, new_sha, base_sha, file, key_pair, base_key_pair)
      orig_pt == load(bl, enc, base_sha, base_key_pair)
  IN IF entry_data.raised \/ ~EntryAssertion(base_sha, base_key_pair)
     THEN Raised(bl, nk)
     ELSE IF entry_data.found THEN Built(e, bl, nk)
     ELSE IF orig_pt = LoadError THEN Raised(bl, nk)
     ELSE IF too_large
     THEN write_copy(m, bl, enc, nk, path, new_sha, file, FALSE, dry_run, save_ok)
     ELSE IF dry_run THEN Built(e, bl, nk)
     ELSE IF save_ok
     THEN Saved(e, save(bl, new_sha, [orig |-> AsOriginal(orig_pt), new |-> file.content],
                        key_pair),
                IF enc THEN nk + 1 ELSE nk)
     ELSE Raised(bl, nk)

\* save_if_new that does not consult skip_diff_patterns
save_if_new_noskip(m, bl, enc, nk, t, path, file, dry_run, force_copy, too_large, save_ok) ==
  LET curr_entry == get_entry(m, path, IntTime(t))
      new_sha == ShaOf(file.content)
  IN IF force_copy \/ curr_entry = NoEntry \/ ~Truthy(curr_entry.sha)
     THEN write_copy(m, bl, enc, nk, path, new_sha, file, force_copy, dry_run, save_ok)
     ELSE IF new_sha # curr_entry.sha
     THEN write_diff(m, bl, enc, nk, path, new_sha, curr_entry, file, dry_run,
                     too_large, save_ok)
     ELSE IF file.uid # curr_entry.uid \/ file.gid # curr_entry.gid
             \/ file.mode # curr_entry.mode
     THEN IF EntryAssertion(curr_entry.base_sha, curr_entry.base_key_pair)
          THEN Built(ManifestEntry(path, curr_entry.sha, curr_entry.base_sha, file,
                                   curr_entry.key_pair, curr_entry.base_key_pair), bl, nk)
          ELSE Raised(bl, nk)
     ELSE Built(NoEntry, bl, nk)

\* BackupStore.save_if_new up to the entry it has built (NoEntry when the file
\* is up to date), before the insert into the manifest
save_if_new(m, bl, enc, nk, t, path, file, dry_run, force_copy, too_large, save_ok) ==
  LET curr_entry == get_entry(m, path, IntTime(t))
      new_sha == ShaOf(file.content)
  IN IF force_copy \/ curr_entry = NoEntry \/ ~Truthy(curr_entry.sha)
     THEN write_copy(m, bl, enc, nk, path, new_sha, file, force_copy, dry_run, save_ok)
     ELSE IF new_sha # curr_entry.sha
     THEN IF path \in skip_diff_patterns
          THEN write_copy(m, bl, enc, nk, path, new_sha, file, FALSE, dry_run, save_ok)
          ELSE write_diff(m, bl, enc, nk, path, new_sha, curr_entry, file, dry_run,
                          too_large, save_ok)
     ELSE IF file.uid # curr_entry.uid \/ file.gid # curr_entry.gid
             \/ file.mode # curr_entry.mode
     THEN IF EntryAssertion(curr_entry.base_sha, curr_entry.base_key_pair)
          THEN Built(ManifestEntry(path, curr_entry.sha, curr_entry.base_sha, file,
                                   curr_entry.key_pair, curr_entry.base_key_pair), bl, nk)
          ELSE Raised(bl, nk)
     ELSE Built(NoEntry, bl, nk)

\* ------------------------------------------------------------------ process
Frame(fn, store, pc, exc, dry_run, preserve) ==
  [fn |-> fn, store |-> store, pc |-> pc, exc |-> exc, dry_run |-> dry_run,
   preserve |-> preserve, ts |-> 0, todel |-> <<>>]

IdleFrame == Frame("main", "s1", "idle", "none", FALSE, FALSE)

Top == stack[Len(stack)]
Main == stack[1]
SetTop(f) == [stack EXCEPT ![Len(stack)] = f]

\* positions inside the body of a "with unlock()" block
BodyPcs == {"scan", "commit", "deleting", "inner"}
\* positions inside do_cleanup
CleanupPcs == {"dc_start", "dc_key", "dc_rotate", "dc_del", "dc_rm"}
\* an unlock scope of the store is active: unlock() has yielded and its
\* finally clause has not completed
ScopeActive(s) ==
  \E i \in 1..Len(stack) :
     /\ stack[i].fn \in {"main", "inner"}
     /\ stack[i].store = s
     /\ stack[i].pc \in BodyPcs \cup CleanupPcs \cup {"unreg0", "unreg1", "unreg2"}

InitStore ==
  /\ files = [p \in Paths |-> NoFile]
  /\ blobs = [s \in Shas |-> NoBlob]
  /\ manifestObjs = {}
  /\ keyObjs = {}
  /\ use_encryption \in BOOLEAN
  /\ manifest = [s \in Stores |-> NoManifest]
  /\ scratch = {}
  /\ UNLOCKED_STORE = "none"
  /\ sigdisp = [s \in Signals |-> "DFL"]
  /\ hargs = [dry_run |-> FALSE, preserve |-> FALSE]
  /\ stack = <<IdleFrame>>
  /\ marked = {}
  /\ pending_del = {}
  /\ new_entry = NoEntry
  /\ nextKey = 1
  /\ now = 0
  /\ runs = 0
  /\ exitCode = Null
  /\ uploads = 0
  /\ mutated = FALSE
  /\ orphaned = [p \in Paths |-> "no"]

Init ==
  /\ InitStore
  /\ codec = IdleCodec /\ sealer = IdleSealer /\ rotation = IdleRotation /\ saving = IdleSaving /\ reading = IdleReading

\* the contents that occur in the source tree or in the store
UsedContents ==
  {files[p].content : p \in Paths} \cup {c \in Contents : blobs[ShaOf(c)] # NoBlob}

\* contents are interchangeable, so the environment introduces them in
\* increasing order: it writes a content already in use or the least unused one
WritableContents == {c \in Contents : \A d \in 1..(c - 1) : d \in UsedContents}

\* the environment writes, chmods or removes a source file between two
\* backup runs
WriteFile(p, c, mode) ==
  /\ Len(stack) = 1 /\ Main.pc = "idle" /\ runs < MaxRuns
  /\ c \in WritableContents
  /\ files[p] # [content |-> c, uid |-> 0, gid |-> 0, mode |-> mode]
  /\ files' = [files EXCEPT ![p] = [content |-> c, uid |-> 0, gid |-> 0, mode |-> mode]]
  /\ orphaned' = [orphaned EXCEPT ![p] = "no"]
  /\ UNCHANGED <<reading, saving, rotation, sealer, codec, blobs, manifestObjs, keyObjs, use_encryption, manifest, scratch,
                 UNLOCKED_STORE, sigdisp, hargs, stack, marked, pending_del, new_entry,
                 nextKey, now, runs, exitCode, uploads, mutated>>

RemoveFile(p) ==
  /\ Len(stack) = 1 /\ Main.pc = "idle" /\ runs < MaxRuns
  /\ files[p] # NoFile
  /\ files' = [files EXCEPT ![p] = NoFile]
  /\ orphaned' = [orphaned EXCEPT ![p] = "no"]
  /\ UNCHANGED <<reading, saving, rotation, sealer, codec, blobs, manifestObjs, keyObjs, use_encryption, manifest, scratch,
                 UNLOCKED_STORE, sigdisp, hargs, stack, marked, pending_del, new_entry,
                 nextKey, now, runs, exitCode, uploads, mutated>>

RECURSIVE CharsOfInt(_)
\* the characters of a natural number written in decimal, each character as
\* its rank among '.', '0', '1', ..., '9' (the order of their code points)
CharsOfInt(n) ==
  IF n < 10 THEN <<n + 1>> ELSE Append(CharsOfInt(n \div 10), (n % 10) + 1)

\* '{ts}'.format(ts=time.time()) at clock t: the seconds, the point and the
\* tenths, as str of a float writes them
TsName(t) == CharsOfInt(t \div 2) \o <<0, (5 * (t % 2)) + 1>>

RECURSIVE StrLess(_, _)
\* a < b of two Python strings: the first character that differs decides, and
\* a proper prefix is the smaller one
StrLess(a, b) ==
  IF a = <<>> THEN b # <<>>
  ELSE IF b = <<>> THEN FALSE
  ELSE IF Head(a) # Head(b) THEN Head(a) < Head(b)
  ELSE StrLess(Tail(a), Tail(b))

\* sorted(self._query(MANIFEST_PREFIX)): the order of two manifest names
ManifestNameLess(t1, t2) == StrLess(TsName(t1), TsName(t2))

\* manifests[-1] of unlock
NewestManifest(objs) ==
  CHOOSE o \in objs : \A x \in objs : x = o \/ ManifestNameLess(x.ts, o.ts)

\* get_scratch_dir(): the directory itself
ScratchDir == "."

\* unlock_manifest: the manifest opened in the scratch directory, NoManifest
\* when the first _load raises (load_ok false) or finds no object
unlock_manifest(obj, keys, enc, load_ok) ==
  IF ~load_ok \/ (enc /\ obj.ts \notin keys) THEN NoManifest ELSE OpenManifest(obj)

\* _register_unlocked_store
RegisterUnlockedStore(s, dry_run, preserve) ==
  /\ UNLOCKED_STORE' = s
  /\ hargs' = [dry_run |-> dry_run, preserve |-> preserve]
  /\ sigdisp' = [sig \in Signals |-> "HANDLER"]

\* BackupStore.unlock up to the yield, or up to the finally clause when the
\* manifest cannot be fetched: rmtree and makedirs leave an empty scratch
\* directory, unlock_manifest creates the local manifest file before it loads
\* the manifest, and with encryption on after it has loaded the key; f is the
\* frame of the caller, below the frames under it, body the position the body
\* of the with block starts at
UnlockInto(below, f, s, body, dry_run, preserve, load_ok) ==
  LET m == IF manifestObjs = {} THEN NewManifest
           ELSE unlock_manifest(NewestManifest(manifestObjs), keyObjs, use_encryption,
                                load_ok)
  IN /\ runs < MaxRuns
     /\ runs' = runs + 1
     /\ uploads' = 0
     /\ mutated' = FALSE
     /\ IF m.open
        THEN /\ manifest' = [manifest EXCEPT ![s] = m]
             /\ scratch' = {ScratchDir, s}
             /\ RegisterUnlockedStore(s, dry_run, preserve)
             /\ stack' = Append(below, [f EXCEPT !.pc = body, !.exc = "none",
                                      !.store = s, !.dry_run = dry_run,
                                      !.preserve = preserve])
        ELSE /\ scratch' = IF use_encryption THEN {ScratchDir} ELSE {ScratchDir, s}
             /\ stack' = Append(below, [f EXCEPT !.pc = "dc_start", !.exc = "error",
                                      !.store = s, !.dry_run = dry_run,
                                      !.preserve = preserve])
             /\ UNCHANGED <<manifest, UNLOCKED_STORE, hargs, sigdisp>>

\* cli/backup.py main: with backup_store.unlock(dry_run=..., preserve_scratch=...)
Unlock(dry_run, preserve, load_ok) ==
  /\ Len(stack) = 1 /\ Main.pc = "idle"
  /\ UnlockInto(<<>>, Main, "s1", "scan", dry_run, preserve, load_ok)
  /\ marked' = {}
  /\ pending_del' = {}
  /\ new_entry' = NoEntry
  /\ UNCHANGED <<reading, saving, rotation, sealer, codec, files, blobs, manifestObjs, keyObjs, use_encryption, nextKey, now,
                 exitCode, orphaned>>

\* _scan_directory without its try/except: an exception of save_if_new leaves
\* the body of the with block
ScanFile_uncaught(p, too_large, save_ok) ==
  /\ Len(stack) = 1 /\ Main.pc = "scan"
  /\ p \notin marked /\ files[p] # NoFile
  /\ Len(manifest["s1"].rows) < MaxRows
  /\ LET r == save_if_new(manifest["s1"], blobs, use_encryption, nextKey, now, p,
                          files[p], Main.dry_run, FALSE, too_large, save_ok)
     IN /\ marked' = marked \cup {p}
        /\ blobs' = r.blobs
        /\ nextKey' = r.nextKey
        /\ IF ~r.raised /\ r.entry # NoEntry /\ ~Main.dry_run
           THEN /\ new_entry' = r.entry
                /\ stack' = SetTop([Main EXCEPT !.pc = "commit"])
           ELSE /\ new_entry' = new_entry
                /\ stack' = IF r.raised
                            THEN SetTop([Main EXCEPT !.pc = "dc_start", !.exc = "error"])
                            ELSE stack
        /\ orphaned' = IF r.saved /\ orphaned[p] = "no"
                          /\ RowsOf(manifest["s1"], p, IntTime(now)) = {}
                       THEN [orphaned EXCEPT ![p] = "uploaded"] ELSE orphaned
  /\ UNCHANGED <<reading, saving, rotation, sealer, codec, files, manifestObjs, keyObjs, use_encryption, manifest, scratch,
                 UNLOCKED_STORE, sigdisp, hargs, pending_del, now, runs, exitCode,
                 uploads, mutated>>

\* _scan_directory: the walk yields a file (file_walker shuffles the files of
\* a directory, so in any order), marks it and calls save_if_new; an
\* exception of save_if_new is logged and the walk goes on
ScanFile(p, too_large, save_ok) ==
  /\ Len(stack) = 1 /\ Main.pc = "scan"
  /\ p \notin marked /\ files[p] # NoFile
  /\ Len(manifest["s1"].rows) < MaxRows
  /\ LET r == save_if_new(manifest["s1"], blobs, use_encryption, nextKey, now, p,
                          files[p], Main.dry_run, FALSE, too_large, save_ok)
     IN /\ marked' = marked \cup {p}
        /\ blobs' = r.blobs
        /\ nextKey' = r.nextKey
        /\ IF ~r.raised /\ r.entry # NoEntry /\ ~Main.dry_run
           THEN /\ new_entry' = r.entry
                /\ stack' = SetTop([Main EXCEPT !.pc = "commit"])
           ELSE UNCHANGED <<new_entry, stack>>
        /\ orphaned' = IF r.saved /\ orphaned[p] = "no"
                          /\ RowsOf(manifest["s1"], p, IntTime(now)) = {}
                       THEN [orphaned EXCEPT ![p] = "uploaded"] ELSE orphaned
  /\ UNCHANGED <<reading, saving, rotation, sealer, codec, files, manifestObjs, keyObjs, use_encryption, manifest, scratch,
                 UNLOCKED_STORE, sigdisp, hargs, pending_del, now, runs, exitCode,
                 uploads, mutated>>

\* save_if_new: self.manifest.insert_or_update(new_entry)
Commit ==
  /\ Len(stack) = 1 /\ Main.pc = "commit"
  /\ manifest' = [manifest EXCEPT !["s1"] = insert_or_update(@, new_entry, now)]
  /\ mutated' = TRUE
  /\ orphaned' = [orphaned EXCEPT ![new_entry.abs_file_name] =
                     IF @ = "pending" THEN "recommitted"
                     ELSE IF @ = "uploaded" THEN "no" ELSE @]
  /\ new_entry' = NoEntry
  /\ stack' = SetTop([Main EXCEPT !.pc = "scan"])
  /\ UNCHANGED <<reading, saving, rotation, sealer, codec, files, blobs, manifestObjs, keyObjs, use_encryption, scratch,
                 UNLOCKED_STORE, sigdisp, hargs, marked, pending_del, nextKey, now, runs,
                 exitCode, uploads>>

\* the history of aborted saves once the running save_if_new is lost
AbortedSaves ==
  [p \in Paths |-> IF orphaned[p] = "uploaded" THEN "pending" ELSE orphaned[p]]

\* save_if_new that inserts its row before it raises
AbortSave_inserted ==
  /\ Len(stack) = 1 /\ Main.pc = "commit"
  /\ manifest' = [manifest EXCEPT !["s1"] = insert_or_update(@, new_entry, now)]
  /\ mutated' = TRUE
  /\ orphaned' = AbortedSaves
  /\ new_entry' = NoEntry
  /\ stack' = SetTop([Main EXCEPT !.pc = "scan"])
  /\ UNCHANGED <<reading, saving, rotation, sealer, codec, files, blobs, manifestObjs, keyObjs, use_encryption, scratch,
                 UNLOCKED_STORE, sigdisp, hargs, marked, pending_del, nextKey, now, runs,
                 exitCode, uploads>>

\* save_if_new raises after the upload and before the insert; the scan loop
\* catches the exception
AbortSave ==
  /\ Len(stack) = 1 /\ Main.pc = "commit"
  /\ orphaned' = AbortedSaves
  /\ new_entry' = NoEntry
  /\ stack' = SetTop([Main EXCEPT !.pc = "scan"])
  /\ UNCHANGED <<reading, saving, rotation, sealer, codec, files, blobs, manifestObjs, keyObjs, use_encryption, manifest, scratch,
                 UNLOCKED_STORE, sigdisp, hargs, marked, pending_del, nextKey, now, runs,
                 exitCode, uploads, mutated>>

\* the end of the walks without the subtraction of marked_files
EndScan_unmarked ==
  /\ Len(stack) = 1 /\ Main.pc = "scan"
  /\ \A p \in Paths : files[p] # NoFile => p \in marked
  /\ pending_del' = manifest_files(manifest["s1"], IntTime(now))
  /\ stack' = SetTop([Main EXCEPT !.pc = "deleting"])
  /\ UNCHANGED <<reading, saving, rotation, sealer, codec, files, blobs, manifestObjs, keyObjs, use_encryption, manifest, scratch,
                 UNLOCKED_STORE, sigdisp, hargs, marked, new_entry, nextKey, now, runs, exitCode,
                 uploads, mutated, orphaned>>

\* main: the walks are over, every file of the source tree has been yielded;
\* manifest.files() - marked_files is computed
EndScan ==
  /\ Len(stack) = 1 /\ Main.pc = "scan"
  /\ \A p \in Paths : files[p] # NoFile => p \in marked
  /\ pending_del' = manifest_files(manifest["s1"], IntTime(now)) \ marked
  /\ stack' = SetTop([Main EXCEPT !.pc = "deleting"])
  /\ UNCHANGED <<reading, saving, rotation, sealer, codec, files, blobs, manifestObjs, keyObjs, use_encryption, manifest, scratch,
                 UNLOCKED_STORE, sigdisp, hargs, marked, new_entry, nextKey, now, runs, exitCode,
                 uploads, mutated, orphaned>>

\* the loop over the deleted files without its test of dry_run
DeleteStep_always(p) ==
  /\ Len(stack) = 1 /\ Main.pc = "deleting"
  /\ p \in pending_del
  /\ Len(manifest["s1"].rows) < MaxRows
  /\ pending_del' = pending_del \ {p}
  /\ manifest' = [manifest EXCEPT !["s1"] = delete(@, p, now)]
  /\ mutated' = TRUE
  /\ UNCHANGED <<reading, saving, rotation, sealer, codec, files, blobs, manifestObjs, keyObjs, use_encryption, scratch,
                 UNLOCKED_STORE, sigdisp, hargs, stack, marked, new_entry, nextKey, now,
                 runs, exitCode, uploads, orphaned>>

\* main: one iteration of the loop over the deleted files
DeleteStep(p) ==
  /\ Len(stack) = 1 /\ Main.pc = "deleting"
  /\ p \in pending_del
  /\ Len(manifest["s1"].rows) < MaxRows
  /\ pending_del' = pending_del \ {p}
  /\ IF Main.dry_run
     THEN UNCHANGED <<manifest, mutated>>
     ELSE /\ manifest' = [manifest EXCEPT !["s1"] = delete(@, p, now)]
          /\ mutated' = TRUE
  /\ UNCHANGED <<reading, saving, rotation, sealer, codec, files, blobs, manifestObjs, keyObjs, use_encryption, scratch,
                 UNLOCKED_STORE, sigdisp, hargs, stack, marked, new_entry, nextKey, now,
                 runs, exitCode, uploads, orphaned>>

\* the body of the with block ends: the finally clause of unlock starts
ExitBody ==
  /\ Len(stack) = 1 /\ Main.pc = "deleting" /\ pending_del = {}
  /\ marked' = {}
  /\ stack' = SetTop([Main EXCEPT !.pc = "dc_start", !.exc = "none"])
  /\ UNCHANGED <<reading, saving, rotation, sealer, codec, files, blobs, manifestObjs, keyObjs, use_encryption, manifest, scratch,
                 UNLOCKED_STORE, sigdisp, hargs, pending_del, new_entry, nextKey,
                 now, runs, exitCode, uploads, mutated, orphaned>>

\* an exception leaves the body of the with block
BodyRaises ==
  /\ Len(stack) = 1 /\ Main.pc \in {"scan", "deleting"}
  /\ stack' = SetTop([Main EXCEPT !.pc = "dc_start", !.exc = "error"])
  /\ marked' = {}
  /\ pending_del' = {}
  /\ UNCHANGED <<reading, saving, rotation, sealer, codec, files, blobs, manifestObjs, keyObjs, use_encryption, manifest, scratch,
                 UNLOCKED_STORE, sigdisp, hargs, new_entry, nextKey, now, runs, exitCode,
                 uploads, mutated, orphaned>>

\* ------------------------------------------------------------------ cleanup
\* do_cleanup returns: the handler goes on to sys.exit(0), the finally clause
\* of unlock to _unregister_store
DcReturn(f) ==
  IF f.fn \in Signals
  THEN [f EXCEPT !.pc = "raise", !.exc = "exit0", !.todel = <<>>, !.ts = 0]
  ELSE [f EXCEPT !.pc = "unreg0", !.todel = <<>>, !.ts = 0]

\* do_cleanup raises and the handler goes on to sys.exit(0)
DcRaise_exit0(f) ==
  IF f.fn \in Signals
  THEN [f EXCEPT !.pc = "raise", !.exc = "exit0", !.todel = <<>>, !.ts = 0]
  ELSE [f EXCEPT !.pc = "raise", !.exc = "error", !.todel = <<>>, !.ts = 0]

\* do_cleanup raises: the handler catches Exception and calls sys.exit(1), the
\* finally clause of unlock lets the exception out
DcRaise(f) ==
  IF f.fn \in Signals
  THEN [f EXCEPT !.pc = "raise", !.exc = "exit1", !.todel = <<>>, !.ts = 0]
  ELSE [f EXCEPT !.pc = "raise", !.exc = "error", !.todel = <<>>, !.ts = 0]

\* the end of do_cleanup: rmtree of the scratch directory unless
\* preserve_scratch, and self._manifest = None
DcFinish(f) ==
  /\ scratch' = IF f.preserve THEN scratch ELSE {}
  /\ manifest' = [manifest EXCEPT ![f.store] = NoManifest]
  /\ stack' = SetTop(DcReturn(f))

\* do_cleanup from its entry: nothing to do without a manifest; an unchanged
\* manifest or a dry run skips the lock; otherwise lock_manifest takes the
\* timestamp, seals the manifest and saves it as manifest.<ts>
DcStart(save_ok, dt) ==
  LET f == Top
      m == manifest[f.store]
  IN /\ f.pc = "dc_start"
     /\ IF ~m.open
        THEN /\ stack' = SetTop(DcReturn(f))
             /\ UNCHANGED <<manifest, scratch, manifestObjs, now, uploads>>
        ELSE IF ~m.changed \/ f.dry_run
        THEN /\ DcFinish(f)
             /\ UNCHANGED <<manifestObjs, now, uploads>>
        ELSE /\ now + dt <= MaxTime
             /\ now' = now + dt
             /\ IF save_ok
                THEN /\ manifestObjs' = {o \in manifestObjs : o.ts # now} \cup
                          {[ts |-> now, rows |-> m.rows, base_shas |-> m.base_shas]}
                     /\ uploads' = uploads + 1
                     /\ stack' = SetTop([f EXCEPT !.ts = now,
                            !.pc = IF use_encryption THEN "dc_key" ELSE "dc_rotate"])
                ELSE /\ stack' = SetTop(DcRaise(f))
                     /\ UNCHANGED <<manifestObjs, uploads>>
             /\ UNCHANGED <<manifest, scratch>>
     /\ UNCHANGED <<reading, saving, rotation, sealer, codec, files, blobs, keyObjs, use_encryption, UNLOCKED_STORE, sigdisp,
                    hargs, marked, pending_del, new_entry, nextKey, runs, exitCode,
                    mutated, orphaned>>

\* lock_manifest: the wrapped key is saved as manifest-key.<ts>
DcKey(save_ok) ==
  LET f == Top
  IN /\ f.pc = "dc_key"
     /\ IF save_ok
        THEN /\ keyObjs' = keyObjs \cup {f.ts}
             /\ stack' = SetTop([f EXCEPT !.pc = "dc_rotate"])
        ELSE /\ stack' = SetTop(DcRaise(f))
             /\ UNCHANGED keyObjs
     /\ UNCHANGED <<reading, saving, rotation, sealer, codec, files, blobs, manifestObjs, use_encryption, manifest, scratch,
                    UNLOCKED_STORE, sigdisp, hargs, marked, pending_del, new_entry,
                    nextKey, now, runs, exitCode, uploads, mutated, orphaned>>

RECURSIVE SortedTs(_)
\* sorted(...) of the timestamps of a set of manifest names
SortedTs(S) ==
  IF S = {} THEN <<>>
  ELSE LET least == CHOOSE t \in S : \A u \in S : u = t \/ ManifestNameLess(t, u)
       IN <<least>> \o SortedTs(S \ {least})

RECURSIVE DeletionsOf(_)
\* the calls of _delete that rotate_manifests makes for a list of manifests
DeletionsOf(tss) ==
  IF tss = <<>> THEN <<>>
  ELSE <<[kind |-> "manifest", ts |-> Head(tss)], [kind |-> "manifest-key", ts |-> Head(tss)]>>
         \o DeletionsOf(Tail(tss))

\* the slice manifests[:-max_versions] of a sorted list, max_versions >= 1
AllButNewest(sorted, max_versions) ==
  IF Len(sorted) > max_versions THEN SubSeq(sorted, 1, Len(sorted) - max_versions)
  ELSE <<>>

\* manifests[:-max_versions] of rotate_manifests
RotationVictims(objs) == AllButNewest(SortedTs({o.ts : o \in objs}), max_manifest_versions)

\* rotate_manifests: the query and the list of objects to delete
DcRotate ==
  LET f == Top
      todel == DeletionsOf(RotationVictims(manifestObjs))
  IN /\ f.pc = "dc_rotate"
     /\ IF todel = <<>>
        THEN DcFinish(f)
        ELSE /\ stack' = SetTop([f EXCEPT !.pc = "dc_del", !.todel = todel])
             /\ UNCHANGED <<manifest, scratch>>
     /\ UNCHANGED <<reading, saving, rotation, sealer, codec, files, blobs, manifestObjs, keyObjs, use_encryption, UNLOCKED_STORE,
                    sigdisp, hargs, marked, pending_del, new_entry, nextKey, now, runs,
                    exitCode, uploads, mutated, orphaned>>

\* rotate_manifests: one call of the backend _delete
DcDel(delete_ok) ==
  LET f == Top
      d == Head(f.todel)
  IN /\ f.pc = "dc_del"
     /\ IF delete_ok
        THEN /\ manifestObjs' = IF d.kind = "manifest"
                                THEN {o \in manifestObjs : o.ts # d.ts} ELSE manifestObjs
             /\ keyObjs' = IF d.kind = "manifest-key" THEN keyObjs \ {d.ts} ELSE keyObjs
             /\ stack' = SetTop([f EXCEPT !.todel = Tail(f.todel),
                                  !.pc = IF Len(f.todel) = 1 THEN "dc_rm" ELSE "dc_del"])
        ELSE /\ stack' = SetTop(DcRaise(f))
             /\ UNCHANGED <<manifestObjs, keyObjs>>
     /\ UNCHANGED <<reading, saving, rotation, sealer, codec, files, blobs, use_encryption, manifest, scratch, UNLOCKED_STORE,
                    sigdisp, hargs, marked, pending_del, new_entry, nextKey, now, runs,
                    exitCode, uploads, mutated, orphaned>>

\* do_cleanup after the rotation
DcRm ==
  LET f == Top
  IN /\ f.pc = "dc_rm"
     /\ DcFinish(f)
     /\ UNCHANGED <<reading, saving, rotation, sealer, codec, files, blobs, manifestObjs, keyObjs, use_encryption, UNLOCKED_STORE,
                    sigdisp, hargs, marked, pending_del, new_entry, nextKey, now, runs,
                    exitCode, uploads, mutated, orphaned>>

\* what follows the finally clause of unlock: the with statement ends
\* normally, or the pending exception goes on
ScopeExit(f) ==
  IF f.exc # "none" THEN [f EXCEPT !.pc = "raise"]
  ELSE IF f.fn = "main" THEN [f EXCEPT !.pc = "idle"]
  ELSE [f EXCEPT !.pc = "return"]

\* _unregister_store, statement by statement
UnregisterStore ==
  LET f == Top
  IN /\ f.pc \in {"unreg0", "unreg1", "unreg2"}
     /\ UNLOCKED_STORE' = IF f.pc = "unreg0" THEN "none" ELSE UNLOCKED_STORE
     /\ sigdisp' = IF f.pc = "unreg1" THEN [sigdisp EXCEPT !["SIGINT"] = "DFL"]
                   ELSE IF f.pc = "unreg2" THEN [sigdisp EXCEPT !["SIGTERM"] = "DFL"]
                   ELSE sigdisp
     /\ stack' = SetTop(IF f.pc = "unreg0" THEN [f EXCEPT !.pc = "unreg1"]
                        ELSE IF f.pc = "unreg1" THEN [f EXCEPT !.pc = "unreg2"]
                        ELSE ScopeExit(f))
     /\ IF f.pc = "unreg2" /\ ScopeExit(f).pc = "idle"
        THEN uploads' = 0 /\ mutated' = FALSE
        ELSE UNCHANGED <<uploads, mutated>>
     /\ UNCHANGED <<reading, saving, rotation, sealer, codec, files, blobs, manifestObjs, keyObjs, use_encryption, manifest,
                    scratch, hargs, marked, pending_del, new_entry, nextKey, now, runs,
                    exitCode, orphaned>>

\* ------------------------------------------------------ signals and exits
\* SIGINT or SIGTERM arrives while _cleanup_and_exit is installed for it: the
\* handler sets the signal to SIG_IGN, then either enters do_cleanup of the
\* registered store or, without one, goes to sys.exit(0)
HandlerFrame(sig) ==
  IF UNLOCKED_STORE # "none"
  THEN Frame(sig, UNLOCKED_STORE, "dc_start", "none", hargs.dry_run, hargs.preserve)
  ELSE Frame(sig, "s1", "raise", "exit0", hargs.dry_run, hargs.preserve)

Signal(sig) ==
  /\ Main.pc # "exited"
  /\ sigdisp[sig] = "HANDLER"
  /\ sigdisp' = [sigdisp EXCEPT ![sig] = "IGN"]
  /\ stack' = Append(stack, HandlerFrame(sig))
  /\ UNCHANGED <<reading, saving, rotation, sealer, codec, files, blobs, manifestObjs, keyObjs, use_encryption, manifest, scratch,
                 UNLOCKED_STORE, hargs, marked, pending_del, new_entry, nextKey, now,
                 runs, exitCode, uploads, mutated, orphaned>>

\* an exception reaches a frame: inside the body of a with unlock() block the
\* finally clause starts with the exception pending; anywhere else (inside
\* do_cleanup, where only Exception is caught, inside _unregister_store, or
\* outside any scope) it goes on to the caller
Receive(f, exc) ==
  IF f.pc \in BodyPcs
  THEN [f EXCEPT !.pc = "dc_start", !.exc = exc]
  ELSE [f EXCEPT !.pc = "raise", !.exc = exc, !.todel = <<>>, !.ts = 0]

\* the exception of the top frame leaves it: SystemExit at the bottom of the
\* stack ends the process with its status, any other exception is the
\* caller's to handle
Propagate ==
  LET f == Top
  IN /\ f.pc = "raise"
     /\ IF Len(stack) = 1
        THEN /\ stack' = <<[f EXCEPT !.pc = IF f.exc = "error" THEN "idle" ELSE "exited",
                                     !.exc = "none"]>>
             /\ exitCode' = IF f.exc = "exit0" THEN 0
                            ELSE IF f.exc = "exit1" THEN 1 ELSE exitCode
             /\ uploads' = 0 /\ mutated' = FALSE
             /\ UNCHANGED <<orphaned, new_entry, marked, pending_del>>
        ELSE /\ stack' = Append(SubSeq(stack, 1, Len(stack) - 2),
                                Receive(stack[Len(stack) - 1], f.exc))
             /\ orphaned' = IF Len(stack) = 2 THEN AbortedSaves
                            ELSE orphaned
             /\ IF Len(stack) = 2 /\ Main.pc \in BodyPcs
                THEN new_entry' = NoEntry /\ marked' = {} /\ pending_del' = {}
                ELSE UNCHANGED <<new_entry, marked, pending_del>>
             /\ UNCHANGED <<exitCode, uploads, mutated>>
     /\ UNCHANGED <<reading, saving, rotation, sealer, codec, files, blobs, manifestObjs, keyObjs, use_encryption, manifest,
                    scratch, UNLOCKED_STORE, sigdisp, hargs, nextKey, now, runs>>

\* the process is killed (SIGKILL, power loss, a signal with its default
\* disposition) or has exited, and a new process starts: everything in memory
\* is lost, the store, the scratch directory and the source files stay
Crash ==
  /\ \/ stack # <<IdleFrame>>
     \/ manifest # [s \in Stores |-> NoManifest]
     \/ UNLOCKED_STORE # "none"
  /\ stack' = <<IdleFrame>>
  /\ manifest' = [s \in Stores |-> NoManifest]
  /\ UNLOCKED_STORE' = "none"
  /\ sigdisp' = [s \in Signals |-> "DFL"]
  /\ hargs' = [dry_run |-> FALSE, preserve |-> FALSE]
  /\ orphaned' = AbortedSaves
  /\ new_entry' = NoEntry
  /\ marked' = {}
  /\ pending_del' = {}
  /\ exitCode' = Null
  /\ uploads' = 0
  /\ mutated' = FALSE
  /\ UNCHANGED <<reading, saving, rotation, sealer, codec, files, blobs, manifestObjs, keyObjs, use_encryption, scratch, nextKey,
                 now, runs>>

\* --------------------------------------------------------- a nested unlock
\* the body of an unlock scope calls unlock() again, on the same store object
\* or on another one
NestedUnlock(s, dry_run, preserve) ==
  /\ Len(stack) = 1 /\ Main.pc = "scan"
  /\ UnlockInto(stack, Frame("inner", s, "inner", "none", dry_run, preserve), s,
                "inner", dry_run, preserve, TRUE)
  /\ UNCHANGED <<reading, saving, rotation, sealer, codec, files, blobs, manifestObjs, keyObjs, use_encryption, marked,
                 pending_del, new_entry, nextKey, now, exitCode, orphaned>>

\* the body of the nested with block ends
InnerExit ==
  /\ Top.fn = "inner" /\ Top.pc = "inner"
  /\ stack' = SetTop([Top EXCEPT !.pc = "dc_start", !.exc = "none"])
  /\ UNCHANGED <<reading, saving, rotation, sealer, codec, files, blobs, manifestObjs, keyObjs, use_encryption, manifest, scratch,
                 UNLOCKED_STORE, sigdisp, hargs, marked, pending_del, new_entry, nextKey,
                 now, runs, exitCode, uploads, mutated, orphaned>>

\* the nested with statement is over and the outer body goes on
InnerReturn ==
  /\ Top.fn = "inner" /\ Top.pc = "return"
  /\ stack' = SubSeq(stack, 1, Len(stack) - 1)
  /\ UNCHANGED <<reading, saving, rotation, sealer, codec, files, blobs, manifestObjs, keyObjs, use_encryption, manifest, scratch,
                 UNLOCKED_STORE, sigdisp, hargs, marked, pending_del, new_entry, nextKey,
                 now, runs, exitCode, uploads, mutated, orphaned>>

\* ------------------------------------------------------- a client session
\* the source file changes while the store is unlocked
SessionWrite(p, c, mode) ==
  /\ Len(stack) = 1 /\ Main.pc = "scan"
  /\ c \in WritableContents
  /\ files[p] # [content |-> c, uid |-> 0, gid |-> 0, mode |-> mode]
  /\ files' = [files EXCEPT ![p] = [content |-> c, uid |-> 0, gid |-> 0, mode |-> mode]]
  /\ orphaned' = [orphaned EXCEPT ![p] = "no"]
  /\ UNCHANGED <<reading, saving, rotation, sealer, codec, blobs, manifestObjs, keyObjs, use_encryption, manifest, scratch,
                 UNLOCKED_STORE, sigdisp, hargs, stack, marked, pending_del, new_entry,
                 nextKey, now, runs, exitCode, uploads, mutated>>

\* the source file is removed while the store is unlocked
SessionRemove(p) ==
  /\ Len(stack) = 1 /\ Main.pc = "scan"
  /\ files[p] # NoFile
  /\ files' = [files EXCEPT ![p] = NoFile]
  /\ orphaned' = [orphaned EXCEPT ![p] = "no"]
  /\ UNCHANGED <<reading, saving, rotation, sealer, codec, blobs, manifestObjs, keyObjs, use_encryption, manifest, scratch,
                 UNLOCKED_STORE, sigdisp, hargs, stack, marked, pending_del, new_entry,
                 nextKey, now, runs, exitCode, uploads, mutated>>

\* time.time() moves on by a second
Tick ==
  /\ Len(stack) = 1 /\ Main.pc = "scan"
  /\ now + 2 <= MaxTime
  /\ now' = now + 2
  /\ UNCHANGED <<reading, saving, rotation, sealer, codec, files, blobs, manifestObjs, keyObjs, use_encryption, manifest, scratch,
                 UNLOCKED_STORE, sigdisp, hargs, stack, marked, pending_del, new_entry,
                 nextKey, runs, exitCode, uploads, mutated, orphaned>>

\* a stored object whose bytes were damaged in the store
CorruptedBlob == [orig |-> Garbage, new |-> Garbage, key |-> Garbage]

\* an object of the store is damaged (the store is a disk or a bucket that
\* the engine does not control)
CorruptBlob(sha) ==
  /\ Len(stack) = 1 /\ Main.pc = "scan"
  /\ blobs[sha] \notin {NoBlob, CorruptedBlob}
  /\ blobs' = [blobs EXCEPT ![sha] = CorruptedBlob]
  /\ UNCHANGED <<reading, saving, rotation, sealer, codec, files, manifestObjs, keyObjs, use_encryption, manifest, scratch,
                 UNLOCKED_STORE, sigdisp, hargs, stack, marked, pending_del, new_entry,
                 nextKey, now, runs, exitCode, uploads, mutated, orphaned>>

\* the object manifest.<ts> that lock_manifest has just saved disappears from
\* the store before lock_manifest saves the key (the store is a disk or a
\* bucket that the engine does not control)
LoseSavedManifest ==
  /\ Top.pc = "dc_key"
  /\ \E o \in manifestObjs : o.ts = Top.ts
  /\ manifestObjs' = {o \in manifestObjs : o.ts # Top.ts}
  /\ UNCHANGED <<reading, saving, rotation, sealer, codec, files, blobs, keyObjs, use_encryption, manifest, scratch,
                 UNLOCKED_STORE, sigdisp, hargs, stack, marked, pending_del, new_entry,
                 nextKey, now, runs, exitCode, uploads, mutated, orphaned>>

\* a call of save_if_new by the body of the with block, up to its insert,
\* while the manifest has fewer than max_rows rows
SaveIfNewCallWithin(max_rows, p, force_copy, too_large, save_ok) ==
  /\ Len(stack) = 1 /\ Main.pc = "scan"
  /\ files[p] # NoFile
  /\ Len(manifest["s1"].rows) < max_rows
  /\ LET r == save_if_new(manifest["s1"], blobs, use_encryption, nextKey, now, p,
                          files[p], Main.dry_run, force_copy, too_large, save_ok)
     IN /\ blobs' = r.blobs
        /\ nextKey' = r.nextKey
        /\ IF ~r.raised /\ r.entry # NoEntry /\ ~Main.dry_run
           THEN /\ new_entry' = r.entry
                /\ stack' = SetTop([Main EXCEPT !.pc = "commit"])
           ELSE UNCHANGED <<new_entry, stack>>
        /\ orphaned' = IF r.saved /\ orphaned[p] = "no"
                          /\ RowsOf(manifest["s1"], p, IntTime(now)) = {}
                       THEN [orphaned EXCEPT ![p] = "uploaded"] ELSE orphaned
  /\ UNCHANGED <<reading, saving, rotation, sealer, codec, files, manifestObjs, keyObjs, use_encryption, manifest, scratch,
                 UNLOCKED_STORE, sigdisp, hargs, marked, pending_del, now, runs, exitCode,
                 uploads, mutated>>

SaveIfNewCall(p, force_copy, too_large, save_ok) ==
  SaveIfNewCallWithin(MaxRows, p, force_copy, too_large, save_ok)

\* cli/put.py main: backup_store.save_if_new(args.filename)
Put(p, too_large) == SaveIfNewCall(p, FALSE, too_large, TRUE)

\* _check_entry: the entry restores to bytes with its sha
check_entry(bl, enc, entry) ==
  restore_entry(bl, enc, entry) = ContentOfSha(entry.sha)

\* cli/verify.py _verify, one entry of the latest versions of the files that
\* are not deleted: an entry that fails _check_entry is saved again with
\* force_copy
VerifyRepair(p) ==
  LET entry == get_entry(manifest["s1"], p, IntTime(now))
  IN /\ entry # NoEntry /\ Truthy(entry.sha)
     /\ ~check_entry(blobs, use_encryption, entry)
     /\ SaveIfNewCall(p, TRUE, FALSE, TRUE)

\* manifest.delete(abs_file_name) for a file that is gone
SessionDelete(p) ==
  /\ Len(stack) = 1 /\ Main.pc = "scan"
  /\ files[p] = NoFile
  /\ ~Main.dry_run
  /\ Len(manifest["s1"].rows) < MaxRows
  /\ manifest' = [manifest EXCEPT !["s1"] = delete(@, p, now)]
  /\ mutated' = (mutated \/ delete(manifest["s1"], p, now) # manifest["s1"])
  /\ UNCHANGED <<reading, saving, rotation, sealer, codec, files, blobs, manifestObjs, keyObjs, use_encryption, scratch,
                 UNLOCKED_STORE, sigdisp, hargs, stack, marked, pending_del, new_entry,
                 nextKey, now, runs, exitCode, uploads, orphaned>>

\* ------------------------------------------------------------ the diff codec
\* the values of a byte, and the byte strings handed to the codec
Alphabet == {1, 2}
ByteStrings == UNION {[1..n -> Alphabet] : n \in 0..MaxLen}
\* IOIter.block_size of the three streams
BlockSizes == 1..MaxLen

Min(a, b) == IF a < b THEN a ELSE b
Max(a, b) == IF a < b THEN b ELSE a

\* IOIter.reader(): block k, counted from 0, of a stream read from its start
\* in pieces of min(block_size, size) bytes; <<>> once the stream is exhausted
reader_block(data, block_size, k) ==
  LET requested_read_size == Min(block_size, Len(data)) IN
  IF k * requested_read_size >= Len(data) THEN <<>>
  ELSE SubSeq(data, k * requested_read_size + 1,
              Min((k + 1) * requested_read_size, Len(data)))

\* IOIter.reader(end, reset_pos=False): the bytes from the position pos of the
\* stream up to end or to the end of the stream
reader_to(data, pos, end) ==
  IF Min(end, Len(data)) > pos THEN SubSeq(data, pos + 1, Min(end, Len(data))) ELSE <<>>

\* the position of a stream after reader(end, reset_pos=False)
pos_after_reader(data, pos, end) == Max(pos, Min(end, Len(data)))

\* the alignments of a query with a target, one operation per column: "="
\* and "X" take a byte of both, "I" a byte of the query, "D" one of the target
RECURSIVE Alignments(_, _)
Alignments(query, target) ==
  IF query = <<>> /\ target = <<>> THEN {<<>>}
  ELSE (IF query # <<>> /\ target # <<>>
        THEN {<<IF Head(query) = Head(target) THEN "=" ELSE "X">> \o a :
                a \in Alignments(Tail(query), Tail(target))}
        ELSE {})
       \cup (IF query # <<>>
             THEN {<<"I">> \o a : a \in Alignments(Tail(query), target)} ELSE {})
       \cup (IF target # <<>>
             THEN {<<"D">> \o a : a \in Alignments(query, Tail(target))} ELSE {})

\* the edit distance of an alignment
EditCost(a) == Cardinality({j \in DOMAIN a : a[j] # "="})

\* the run-length encoding of an alignment, the cigar as re.findall reads it
RECURSIVE Cigar(_)
Cigar(a) ==
  IF a = <<>> THEN <<>>
  ELSE LET rest == Cigar(Tail(a)) IN
       IF rest # <<>> /\ rest[1].action = Head(a)
       THEN <<[num |-> rest[1].num + 1, action |-> Head(a)]>> \o Tail(rest)
       ELSE <<[num |-> 1, action |-> Head(a)]>> \o rest

\* edlib.align(query, target, task='path'): the cigars of the alignments of
\* least edit distance, of which the library returns one
edlib_align(query, target) ==
  LET all == Alignments(query, target) IN
  {Cigar(a) : a \in {b \in all : \A c \in all : EditCost(b) <= EditCost(c)}}

\* compute_sha_and_diff: the steps written for one pair of blocks, a step
\* kept as its position, action, length and contents
RECURSIVE DiffOfSteps(_, _, _, _)
DiffOfSteps(steps, pos, local_pos, new_bytes) ==
  IF steps = <<>> THEN <<>>
  ELSE LET num == steps[1].num
           action == steps[1].action
           lp == local_pos + num
       IN IF action = "=" THEN DiffOfSteps(Tail(steps), pos, lp, new_bytes)
          ELSE IF action = "D"
          THEN <<[pos |-> pos + lp - num, action |-> "D", len |-> num, contents |-> <<>>]>>
                 \o DiffOfSteps(Tail(steps), pos, lp - num, new_bytes)
          ELSE <<[pos |-> pos + lp - num, action |-> action, len |-> num,
                  contents |-> SubSeq(new_bytes, lp - num + 1, lp)]>>
                 \o DiffOfSteps(Tail(steps), pos, lp, new_bytes)

\* compute_sha_and_diff: the step lists of a pair of blocks
StepsOfBlocks(orig_bytes, new_bytes) ==
  IF orig_bytes = <<>> THEN {<<[num |-> Len(new_bytes), action |-> "I"]>>}
  ELSE IF new_bytes = <<>> THEN {<<[num |-> Len(orig_bytes), action |-> "D"]>>}
  ELSE edlib_align(new_bytes, orig_bytes)

\* the codec before compute_sha_and_diff(orig, new, diff) with streams of one
\* block size
CodecStart(orig, new, block_size) ==
  [pc |-> "compute", orig |-> orig, new |-> new, block_size |-> block_size, k |-> 0,
   diff |-> <<>>, sha |-> <<>>, out |-> <<>>, opos |-> 0, offset |-> 0, i |-> 1,
   text |-> <<>>, buf |-> <<>>, need |-> TRUE, raised |-> "none"]

\* compute_sha_and_diff: one pass of the loop over zip_longest of the readers
ComputeBlock ==
  LET orig_bytes == reader_block(codec.orig, codec.block_size, codec.k)
      new_bytes == reader_block(codec.new, codec.block_size, codec.k)
  IN /\ codec.pc = "compute"
     /\ orig_bytes # <<>> \/ new_bytes # <<>>
     /\ \E steps \in StepsOfBlocks(orig_bytes, new_bytes) :
          codec' = [codec EXCEPT
                      !.diff = @ \o DiffOfSteps(steps, codec.k * codec.block_size, 0, new_bytes),
                      !.sha = @ \o new_bytes,
                      !.k = @ + 1]
     /\ UNCHANGED <<reading, saving, rotation, sealer, files, blobs, manifestObjs, keyObjs, use_encryption, manifest,
                    scratch, UNLOCKED_STORE, sigdisp, hargs, stack, marked, pending_del,
                    new_entry, nextKey, now, runs, exitCode, uploads, mutated, orphaned>>

\* compute_sha_and_diff returns new_file.sha() and the diff; apply_diff starts
ComputeReturn ==
  /\ codec.pc = "compute"
  /\ reader_block(codec.orig, codec.block_size, codec.k) = <<>>
  /\ reader_block(codec.new, codec.block_size, codec.k) = <<>>
  /\ codec' = [codec EXCEPT !.pc = "apply"]
  /\ UNCHANGED <<reading, saving, rotation, sealer, files, blobs, manifestObjs, keyObjs, use_encryption, manifest,
                 scratch, UNLOCKED_STORE, sigdisp, hargs, stack, marked, pending_del,
                 new_entry, nextKey, now, runs, exitCode, uploads, mutated, orphaned>>

\* apply_diff that takes the position of a step for a position of the original
apply_step_no_offset(c, step) ==
  LET end == step.pos
      caught == c.out \o reader_to(c.orig, c.opos, end)
      at == pos_after_reader(c.orig, c.opos, end)
  IN [c EXCEPT
        !.out = IF step.action = "D" THEN caught ELSE caught \o step.contents,
        !.opos = IF step.action = "I" THEN at ELSE at + step.len,
        !.offset = IF step.action = "D" THEN @ - step.len
                   ELSE IF step.action = "I" THEN @ + step.len
                   ELSE @]

\* apply_diff, the body of its inner loop for a parsed step: the original is
\* caught up to contents_pos - offset, then the action is carried out
apply_step(c, step) ==
  LET end == step.pos - c.offset
      caught == c.out \o reader_to(c.orig, c.opos, end)
      at == pos_after_reader(c.orig, c.opos, end)
  IN [c EXCEPT
        !.out = IF step.action = "D" THEN caught ELSE caught \o step.contents,
        !.opos = IF step.action = "I" THEN at ELSE at + step.len,
        !.offset = IF step.action = "D" THEN @ - step.len
                   ELSE IF step.action = "I" THEN @ + step.len
                   ELSE @]

\* apply_diff: one step of the diff
ApplyStep ==
  /\ codec.pc = "apply"
  /\ codec.i <= Len(codec.diff)
  /\ codec' = [apply_step(codec, codec.diff[codec.i]) EXCEPT !.i = @ + 1]
  /\ UNCHANGED <<reading, saving, rotation, sealer, files, blobs, manifestObjs, keyObjs, use_encryption, manifest,
                 scratch, UNLOCKED_STORE, sigdisp, hargs, stack, marked, pending_del,
                 new_entry, nextKey, now, runs, exitCode, uploads, mutated, orphaned>>

\* apply_diff: after the last step the rest of the original is copied
ApplyRest ==
  /\ codec.pc = "apply"
  /\ codec.i > Len(codec.diff)
  /\ codec' = [codec EXCEPT
                 !.pc = "done",
                 !.out = @ \o reader_to(codec.orig, codec.opos, Len(codec.orig))]
  /\ UNCHANGED <<reading, saving, rotation, sealer, files, blobs, manifestObjs, keyObjs, use_encryption, manifest,
                 scratch, UNLOCKED_STORE, sigdisp, hargs, stack, marked, pending_del,
                 new_entry, nextKey, now, runs, exitCode, uploads, mutated, orphaned>>

\* ------------------------------------------------- apply_diff as a parser
\* the bytes of a diff file, one character each: "|" is Token.SEP, "D", "I",
\* "X" the actions, "0".."2" digits, "a" and "b" bytes of file contents, "@"
\* the mark before a position, "q" any other letter
Digits == {"0", "1", "2"}
DigitValue(ch) == IF ch = "0" THEN 0 ELSE IF ch = "1" THEN 1 ELSE 2
ContentChars == {"a", "b"}
Texts == UNION {[1..n -> ContentChars] : n \in 0..MaxLen}

\* int(b) of Python for a byte string: ValueError (Null) unless it is a
\* non-empty string of digits
RECURSIVE int_of(_)
int_of(chars) ==
  IF chars = <<>> \/ \E j \in 1..Len(chars) : chars[j] \notin Digits THEN Null
  ELSE IF Len(chars) = 1 THEN DigitValue(chars[1])
  ELSE 10 * int_of(SubSeq(chars, 1, Len(chars) - 1)) + DigitValue(chars[Len(chars)])

\* the bytes of a step as compute_sha_and_diff writes them
StepBytes(pos, action, len, contents) ==
  <<"@", pos, "|", action, len, "|">> \o contents

\* diffs of no step or of one well-formed step
StepPrefixes == {<<>>, StepBytes("0", "D", "1", <<>>), StepBytes("0", "I", "1", <<"a">>)}

\* diffs that are not well formed: an optional well-formed step followed by
\* bytes that are no complete step (without or with separators in them), by
\* an I or X step whose contents are shorter than its length, or by a step
\* with another action, with or without the length behind it
MalformedDiffs ==
  LET prefixes == StepPrefixes
      leftover == {<<"a">>, <<"@", "1">>, <<"@", "1", "|">>, <<"@", "1", "|", "D", "1">>,
                   <<"a", "|", "b", "|", "a">>}
      short == {StepBytes(pos, action, "2", contents) :
                  pos \in {"0", "1"}, action \in {"I", "X"}, contents \in {<<>>, <<"a">>}}
      other == {StepBytes(pos, "q", "1", contents) :
                  pos \in {"0", "1"}, contents \in {<<>>, <<"a">>, <<"a", "b">>}}
                 \cup {<<"@", "0", "|", "q", "|">> \o contents : contents \in {<<>>, <<"a">>}}
  IN {pre \o tail : pre \in prefixes, tail \in leftover \cup short \cup other}

\* apply_diff: the next chunk of the diff file is appended to the bytes not
\* yet parsed; at the end of the file bytes that are left are an error, and
\* without any the rest of the original is copied
ReadChunk ==
  /\ codec.pc = "parse" /\ codec.need
  /\ LET diff_chunk == reader_block(codec.text, codec.block_size, codec.k)
     IN codec' = IF diff_chunk # <<>>
                   THEN [codec EXCEPT !.buf = @ \o diff_chunk, !.k = @ + 1, !.need = FALSE]
                 ELSE IF codec.buf # <<>>
                   THEN [codec EXCEPT !.pc = "done", !.raised = "DiffParseError"]
                 ELSE [codec EXCEPT !.pc = "apply", !.diff = <<>>, !.i = 1]
  /\ UNCHANGED <<reading, saving, rotation, sealer, files, blobs, manifestObjs, keyObjs, use_encryption, manifest,
                 scratch, UNLOCKED_STORE, sigdisp, hargs, stack, marked, pending_del,
                 new_entry, nextKey, now, runs, exitCode, uploads, mutated, orphaned>>

\* apply_diff: one pass of the inner loop over the bytes not yet parsed
ParseStep ==
  /\ codec.pc = "parse" /\ ~codec.need
  /\ LET diff == codec.buf
         seps == {j \in 1..Len(diff) : diff[j] = "|"}
     IN IF Cardinality(seps) < 2
        THEN codec' = [codec EXCEPT !.need = TRUE]
        ELSE
          LET i1 == CHOOSE j \in seps : \A k \in seps : j <= k
              i2 == CHOOSE j \in seps \ {i1} : \A k \in seps \ {i1} : j <= k
              position == SubSeq(diff, 1, i1 - 1)
              action_len == SubSeq(diff, i1 + 1, i2 - 1)
              remainder == SubSeq(diff, i2 + 1, Len(diff))
              contents_pos == int_of(SubSeq(position, 2, Len(position)))
              action == IF action_len = <<>> THEN "" ELSE action_len[1]
              contents_len == int_of(SubSeq(action_len, 2, Len(action_len)))
              end == contents_pos - codec.offset
              caught == [codec EXCEPT
                           !.out = @ \o reader_to(codec.orig, codec.opos, end),
                           !.opos = pos_after_reader(codec.orig, codec.opos, end)]
          IN codec' =
               IF contents_pos = Null \/ contents_len = Null
                 THEN [codec EXCEPT !.pc = "done", !.raised = "ValueError"]
               ELSE IF Len(remainder) < contents_len /\ action # "D"
                 THEN [caught EXCEPT !.need = TRUE]
               ELSE IF action \in {"D", "I", "X"}
                 THEN [apply_step(codec, [pos |-> contents_pos, action |-> action,
                                          len |-> contents_len,
                                          contents |-> IF action = "D" THEN <<>>
                                                       ELSE SubSeq(remainder, 1, contents_len)])
                         EXCEPT !.buf = IF action = "D" THEN remainder
                                        ELSE SubSeq(remainder, contents_len + 1,
                                                    Len(remainder)),
                                !.need = (@ \/ Len(remainder) = (IF action = "D" THEN 0 ELSE contents_len))]
               ELSE [caught EXCEPT !.pc = "done", !.raised = "DiffParseError"]
  /\ UNCHANGED <<reading, saving, rotation, sealer, files, blobs, manifestObjs, keyObjs, use_encryption, manifest,
                 scratch, UNLOCKED_STORE, sigdisp, hargs, stack, marked, pending_del,
                 new_entry, nextKey, now, runs, exitCode, uploads, mutated, orphaned>>

\* ------------------------------------------------------------ sealed blobs
\* the values of a byte of a compressed or encrypted stream: 0..CipherMod-1
CipherMod == 8
\* the key pairs generate_key_pair can draw
SealKeys == {1, 2}
\* a zlib stream: a header, a code for every byte, an end mark and a check
\* value over the bytes
ZHeader == 7
ZEnd == 5
ZCode(b) == b + 2
ZCodes == {ZCode(b) : b \in Alphabet}
RECURSIVE ByteSum(_)
ByteSum(data) == IF data = <<>> THEN 0 ELSE Head(data) + ByteSum(Tail(data))
ZCheckMod == 3
zlib_stream(data) ==
  <<ZHeader>> \o [n \in 1..Len(data) |-> ZCode(data[n])] \o <<ZEnd, ByteSum(data) % ZCheckMod>>

\* Cipher(AES(key), CTR(nonce)).encryptor().update: every byte is combined
\* with the key stream at its position in the stream
ctr_encrypt(data, key_pair, pos) ==
  [n \in 1..Len(data) |-> (data[n] + key_pair + pos + n) % CipherMod]

\* a decryptor whose key stream starts again with every call of update
ctr_decrypt_restart(data, key_pair, pos) ==
  [n \in 1..Len(data) |-> (data[n] + 4 * CipherMod - key_pair - n) % CipherMod]

\* Cipher(AES(key), CTR(nonce)).decryptor().update
ctr_decrypt(data, key_pair, pos) ==
  [n \in 1..Len(data) |-> (data[n] + 4 * CipherMod - key_pair - pos - n) % CipherMod]

\* HMAC(key, SHA256()) over the data passed to update: finalize()
hmac_finalize(key_pair, data) == <<key_pair, data>>

\* zlib.decompressobj().decompress(data) in the state st of the object: the
\* bytes it returns, the state it leaves and whether it raises zlib.error
RECURSIVE decompress(_, _)
decompress(st, data) ==
  IF data = <<>> THEN [st |-> st, out |-> <<>>, error |-> FALSE]
  ELSE LET b == Head(data) IN
       IF st.inflate = "eof"
       THEN [st |-> [st EXCEPT !.unused_data = @ \o data], out |-> <<>>, error |-> FALSE]
       ELSE IF st.inflate = "hdr"
       THEN IF b = ZHeader THEN decompress([st EXCEPT !.inflate = "body"], Tail(data))
            ELSE [st |-> st, out |-> <<>>, error |-> TRUE]
       ELSE IF st.inflate = "body"
       THEN IF b \in ZCodes
            THEN LET r == decompress([st EXCEPT !.check = @ + (b - 2)], Tail(data))
                 IN [r EXCEPT !.out = <<b - 2>> \o @]
            ELSE IF b = ZEnd THEN decompress([st EXCEPT !.inflate = "chk"], Tail(data))
            ELSE [st |-> st, out |-> <<>>, error |-> TRUE]
       ELSE IF b = st.check % ZCheckMod
            THEN decompress([st EXCEPT !.inflate = "eof"], Tail(data))
            ELSE [st |-> st, out |-> <<>>, error |-> TRUE]

\* the sealer before compress_and_encrypt(plain, sealed, key_pair, options)
SealerStart(plain, key_pair, use_compression, block_size) ==
  [IdleSealer EXCEPT !.pc = "seal", !.plain = plain, !.key_pair = key_pair,
                     !.use_compression = use_compression, !.block_size = block_size]

\* compress_and_encrypt: what its loop does with a block that zip_fn returned
SealWrite(sl, block) ==
  LET encrypted == IF use_encryption
                   THEN ctr_encrypt(block, sl.key_pair, Len(sl.sealed)) ELSE block
  IN [sl EXCEPT !.sealed = @ \o encrypted,
                !.hmac = IF use_encryption THEN @ \o encrypted ELSE @]

\* compress_and_encrypt: one pass of the loop for a block of the input;
\* compressobj.compress returns any part of the stream that it has not
\* returned yet and that the input fed so far determines
SealBlock ==
  LET block == reader_block(sealer.plain, sealer.block_size, sealer.k)
      fed == sealer.fed + Len(block)
  IN /\ sealer.pc = "seal"
     /\ block # <<>>
     /\ \E upto \in (IF sealer.use_compression THEN sealer.emitted..(1 + fed) ELSE {0}) :
          sealer' = [SealWrite(sealer,
                        IF sealer.use_compression
                        THEN SubSeq(zlib_stream(sealer.plain), sealer.emitted + 1, upto)
                        ELSE block)
                     EXCEPT !.k = @ + 1, !.fed = fed, !.emitted = upto]
     /\ UNCHANGED <<reading, saving, rotation, codec, files, blobs, manifestObjs, keyObjs, use_encryption, manifest,
                    scratch, UNLOCKED_STORE, sigdisp, hargs, stack, marked, pending_del,
                    new_entry, nextKey, now, runs, exitCode, uploads, mutated, orphaned>>

\* compress_and_encrypt: the pass for last_block, compressobj.flush(), and the
\* return of hmac.finalize() or b''; the caller appends it to the key pair
SealLast ==
  /\ sealer.pc = "seal"
  /\ reader_block(sealer.plain, sealer.block_size, sealer.k) = <<>>
  /\ LET stream == zlib_stream(sealer.plain)
         sl == SealWrite(sealer,
                  IF sealer.use_compression
                  THEN SubSeq(stream, sealer.emitted + 1, Len(stream)) ELSE <<>>)
     IN sealer' = [sl EXCEPT !.pc = "open",
                             !.signature = IF use_encryption
                                           THEN hmac_finalize(sl.key_pair, sl.hmac)
                                           ELSE <<>>]
  /\ UNCHANGED <<reading, saving, rotation, codec, files, blobs, manifestObjs, keyObjs, use_encryption, manifest,
                 scratch, UNLOCKED_STORE, sigdisp, hargs, stack, marked, pending_del,
                 new_entry, nextKey, now, runs, exitCode, uploads, mutated, orphaned>>

\* a byte of the stored object, or the tag kept with the key pair, is changed
\* before the object is read
Tamper ==
  /\ sealer.pc = "open" /\ sealer.j = 0 /\ ~sealer.tampered
  /\ use_encryption
  /\ \/ \E n \in DOMAIN sealer.sealed, d \in {1, 3} :
          sealer' = [sealer EXCEPT !.sealed[n] = (@ + d) % CipherMod, !.tampered = TRUE]
     \/ sealer' = [sealer EXCEPT
                     !.signature = hmac_finalize(sealer.key_pair, sealer.hmac \o <<0>>),
                     !.tampered = TRUE]
  /\ UNCHANGED <<reading, saving, rotation, codec, files, blobs, manifestObjs, keyObjs, use_encryption, manifest,
                 scratch, UNLOCKED_STORE, sigdisp, hargs, stack, marked, pending_del,
                 new_entry, nextKey, now, runs, exitCode, uploads, mutated, orphaned>>

\* decrypt_and_unpack: one pass of the loop over the blocks of the input
OpenBlock ==
  LET encrypted_data == reader_block(sealer.sealed, sealer.block_size, sealer.j)
      decrypted_data ==
        sealer.decrypted_data \o
          (IF use_encryption
           THEN ctr_decrypt(encrypted_data, sealer.key_pair, Len(sealer.seen))
           ELSE encrypted_data)
      st == [inflate |-> sealer.inflate, check |-> sealer.check,
             unused_data |-> sealer.unused_data]
      r == IF sealer.use_compression THEN decompress(st, decrypted_data)
           ELSE [st |-> st, out |-> decrypted_data, error |-> FALSE]
  IN /\ sealer.pc = "open"
     /\ encrypted_data # <<>>
     /\ sealer' = IF r.error
                  THEN [sealer EXCEPT !.pc = "done", !.raised = "zlib.error"]
                  ELSE [sealer EXCEPT
                          !.j = @ + 1,
                          !.seen = IF use_encryption THEN @ \o encrypted_data ELSE @,
                          !.out = @ \o r.out,
                          !.inflate = r.st.inflate, !.check = r.st.check,
                          !.unused_data = r.st.unused_data,
                          !.decrypted_data = r.st.unused_data]
     /\ UNCHANGED <<reading, saving, rotation, codec, files, blobs, manifestObjs, keyObjs, use_encryption, manifest,
                    scratch, UNLOCKED_STORE, sigdisp, hargs, stack, marked, pending_del,
                    new_entry, nextKey, now, runs, exitCode, uploads, mutated, orphaned>>

\* decrypt_and_unpack: after the loop the last block is unpacked and the
\* HMAC of the data read is verified against the signature of the key pair
OpenEnd ==
  LET st == [inflate |-> sealer.inflate, check |-> sealer.check,
             unused_data |-> sealer.unused_data]
      r == IF sealer.use_compression THEN decompress(st, sealer.decrypted_data)
           ELSE [st |-> st, out |-> sealer.decrypted_data, error |-> FALSE]
  IN /\ sealer.pc = "open"
     /\ reader_block(sealer.sealed, sealer.block_size, sealer.j) = <<>>
     /\ sealer' = IF r.error
                  THEN [sealer EXCEPT !.pc = "done", !.raised = "zlib.error"]
                  ELSE [sealer EXCEPT
                          !.pc = "done",
                          !.out = @ \o r.out,
                          !.unused_data = r.st.unused_data,
                          !.raised = IF use_encryption
                                        /\ hmac_finalize(sealer.key_pair, sealer.seen)
                                             # sealer.signature
                                     THEN "BackupCorruptedError" ELSE "none"]
     /\ UNCHANGED <<reading, saving, rotation, codec, files, blobs, manifestObjs, keyObjs, use_encryption, manifest,
                    scratch, UNLOCKED_STORE, sigdisp, hargs, stack, marked, pending_del,
                    new_entry, nextKey, now, runs, exitCode, uploads, mutated, orphaned>>

\* ------------------------------------------------------------ rotation
\* the classes of backup store
Backends == {"local", "s3"}
\* the values of the max_manifest_versions option
MaxVersionsValues == {Null} \cup (1..(MaxManifests - 1))

\* the store after lock_manifest has uploaded manifest.<uploaded>: manifests
\* with the timestamps tss, each with its key object when use_encryption is on
StoreAfterLock(tss) ==
  /\ manifestObjs = {[ts |-> t, rows |-> <<>>, base_shas |-> {}] : t \in tss}
  /\ keyObjs = IF use_encryption THEN tss ELSE {}

\* rotate_manifests: the option is read and the manifests are listed
RotateQuery ==
  /\ rotation.pc = "query"
  /\ LET todel == IF ~Truthy(rotation.max_versions) THEN <<>>
                  ELSE DeletionsOf(AllButNewest(SortedTs({o.ts : o \in manifestObjs}),
                                                rotation.max_versions))
     IN rotation' = [rotation EXCEPT !.todel = todel,
                                     !.pc = IF todel = <<>> THEN "returned" ELSE "delete"]
  /\ UNCHANGED <<reading, saving, sealer, codec, files, blobs, manifestObjs, keyObjs, use_encryption,
                 manifest, scratch, UNLOCKED_STORE, sigdisp, hargs, stack, marked,
                 pending_del, new_entry, nextKey, now, runs, exitCode, uploads, mutated,
                 orphaned>>

\* rotate_manifests: one call of _delete; os.remove of LocalBackupStore raises
\* when the object does not exist, delete_object of S3BackupStore does not
RotateDelete ==
  /\ rotation.pc = "delete"
  /\ LET d == Head(rotation.todel)
         present == IF d.kind = "manifest" THEN \E o \in manifestObjs : o.ts = d.ts
                    ELSE d.ts \in keyObjs
     IN IF rotation.backend = "local" /\ ~present
        THEN /\ rotation' = [rotation EXCEPT !.pc = "raised"]
             /\ UNCHANGED <<manifestObjs, keyObjs>>
        ELSE /\ manifestObjs' = IF d.kind = "manifest"
                                THEN {o \in manifestObjs : o.ts # d.ts} ELSE manifestObjs
             /\ keyObjs' = IF d.kind = "manifest-key" THEN keyObjs \ {d.ts} ELSE keyObjs
             /\ rotation' = [rotation EXCEPT
                               !.todel = Tail(@),
                               !.pc = IF Len(rotation.todel) = 1 THEN "returned" ELSE "delete"]
  /\ UNCHANGED <<reading, saving, sealer, codec, files, blobs, use_encryption,
                 manifest, scratch, UNLOCKED_STORE, sigdisp, hargs, stack, marked,
                 pending_del, new_entry, nextKey, now, runs, exitCode, uploads, mutated,
                 orphaned>>

\* ------------------------------------------------------------ the staging file of save
\* sha_to_path: the name of the object of a sha
sha_to_path(sha) == ToString(sha)

\* the outcomes of a call the model does not look into: it returns or raises
Outcomes == BOOLEAN

\* BackupStore.save is called for a full copy of content c
SaveCall(dest, c, key_pair) ==
  /\ saving.pc \in {"idle", "returned", "raised"}
  /\ key_pair \in (IF use_encryption THEN SealKeys ELSE {EmptyKey})
  /\ saving' = [saving EXCEPT !.pc = "open", !.dest = dest, !.plain = CopyOf(c),
                              !.key_pair = key_pair, !.raised = "none",
                              !.filename = sha_to_path(dest)]
  /\ UNCHANGED <<reading, rotation, sealer, codec, files, blobs, manifestObjs, keyObjs,
                 use_encryption, manifest, scratch, UNLOCKED_STORE, sigdisp, hargs, stack,
                 marked, pending_del, new_entry, nextKey, now, runs, exitCode, uploads,
                 mutated, orphaned>>

\* save: IOIter(filename).__enter__ creates the staging file
SaveOpen ==
  /\ saving.pc = "open"
  /\ scratch' = scratch \cup {ScratchDir, saving.filename}
  /\ saving' = [saving EXCEPT !.pc = "seal"]
  /\ UNCHANGED <<reading, rotation, sealer, codec, files, blobs, manifestObjs, keyObjs,
                 use_encryption, manifest, UNLOCKED_STORE, sigdisp, hargs, stack,
                 marked, pending_del, new_entry, nextKey, now, runs, exitCode, uploads,
                 mutated, orphaned>>

\* save: compress_and_encrypt writes the staging file or raises; an exception
\* leaves the with block and save
SaveSeal(ok) ==
  /\ saving.pc = "seal"
  /\ saving' = IF ok THEN [saving EXCEPT !.pc = "backend"]
               ELSE [saving EXCEPT !.pc = "raised", !.raised = "error"]
  /\ UNCHANGED <<reading, rotation, sealer, codec, files, blobs, manifestObjs, keyObjs,
                 use_encryption, manifest, scratch, UNLOCKED_STORE, sigdisp, hargs, stack,
                 marked, pending_del, new_entry, nextKey, now, runs, exitCode, uploads,
                 mutated, orphaned>>

\* save: self._save(encrypted_save_file, dest); LocalBackupStore moves the
\* staging file into the store, S3BackupStore uploads it; an exception leaves
\* the with block and save
SaveBackend(ok) ==
  /\ saving.pc = "backend"
  /\ IF ok
     THEN /\ blobs' = save(blobs, saving.dest, saving.plain, saving.key_pair)
          /\ scratch' = IF saving.backend = "local" THEN scratch \ {saving.filename}
                        ELSE scratch
          /\ saving' = [saving EXCEPT !.pc = "remove"]
     ELSE /\ saving' = [saving EXCEPT !.pc = "raised", !.raised = "error"]
          /\ UNCHANGED <<blobs, scratch>>
  /\ UNCHANGED <<reading, rotation, sealer, codec, files, manifestObjs, keyObjs,
                 use_encryption, manifest, UNLOCKED_STORE, sigdisp, hargs, stack,
                 marked, pending_del, new_entry, nextKey, now, runs, exitCode, uploads,
                 mutated, orphaned>>

\* save: os.remove(filename) after the with block, and the return
SaveRemove ==
  /\ saving.pc = "remove"
  /\ IF saving.filename \in scratch
     THEN /\ scratch' = scratch \ {saving.filename}
          /\ saving' = [saving EXCEPT !.pc = "returned"]
     ELSE /\ saving' = [saving EXCEPT !.pc = "raised", !.raised = "FileNotFoundError"]
          /\ UNCHANGED scratch
  /\ UNCHANGED <<reading, rotation, sealer, codec, files, blobs, manifestObjs, keyObjs,
                 use_encryption, manifest, UNLOCKED_STORE, sigdisp, hargs, stack,
                 marked, pending_del, new_entry, nextKey, now, runs, exitCode, uploads,
                 mutated, orphaned>>

\* ------------------------------------------------------------ specifications
\* the steps of do_cleanup and of the exit of an unlock scope, with a backend
\* that fails whenever faults allows it
Cleanup(faults, steps) ==
  \/ \E save_ok \in faults, dt \in steps : DcStart(save_ok, dt)
  \/ \E save_ok \in faults : DcKey(save_ok)
  \/ DcRotate
  \/ \E delete_ok \in faults : DcDel(delete_ok)
  \/ DcRm
  \/ UnregisterStore

\* backup runs over the whole source tree, each to its end; file a takes every
\* content and, with its first content, every mode; file b takes every content
Next ==
  \/ \E c \in Contents : \E mode \in (IF c = 1 THEN Modes ELSE {0}) : WriteFile("a", c, mode)
  \/ \E c \in Contents : WriteFile("b", c, 0)
  \/ \E p \in {"a", "b"} : RemoveFile(p)
  \/ \E preserve \in PreserveValues : Unlock(FALSE, preserve, TRUE)
  \/ \E p \in {"a", "b"}, too_large \in BOOLEAN : ScanFile(p, too_large, TRUE)
  \/ Commit
  \/ EndScan
  \/ \E p \in {"a", "b"} : DeleteStep(p)
  \/ ExitBody
  \/ Cleanup({TRUE}, {2})

Spec == Init /\ [][Next]_vars

\* backup runs over one file, with signals, exceptions and a failing backend
NextSignals ==
  \/ \E c \in SignalContents : WriteFile("a", c, 0)
  \/ RemoveFile("a")
  \/ \E dry_run \in BOOLEAN, preserve \in PreserveValues, load_ok \in BOOLEAN :
       Unlock(dry_run, preserve, load_ok)
  \/ \E save_ok \in BOOLEAN : ScanFile("a", FALSE, save_ok)
  \/ Commit
  \/ AbortSave
  \/ EndScan
  \/ DeleteStep("a")
  \/ ExitBody
  \/ BodyRaises
  \/ Cleanup(BOOLEAN, {2})
  \/ \E sig \in Signals : Signal(sig)
  \/ Propagate
  \/ Crash

SpecSignals == Init /\ [][NextSignals]_vars

\* backup runs whose body opens a second unlock scope
NextNested ==
  \/ WriteFile("a", 1, 0)
  \/ \E dry_run \in BOOLEAN, preserve \in PreserveValues : Unlock(dry_run, preserve, TRUE)
  \/ ScanFile("a", FALSE, TRUE)
  \/ Commit
  \/ EndScan
  \/ ExitBody
  \/ \E s \in Stores, dry_run \in BOOLEAN, preserve \in PreserveValues :
       NestedUnlock(s, dry_run, preserve)
  \/ InnerExit
  \/ InnerReturn
  \/ Cleanup({TRUE}, {2})
  \/ \E sig \in Signals : Signal(sig)
  \/ Propagate
  \/ Crash

SpecNested == Init /\ [][NextNested]_vars

\* one unlock scope whose body saves, repairs and deletes files a and c,
\* while the files change and an object of the store gets damaged
NextSession ==
  \/ \E dry_run \in BOOLEAN : Unlock(dry_run, FALSE, TRUE)
  \/ \E c \in SignalContents : \E mode \in (IF c = 1 THEN Modes ELSE {0}) :
       SessionWrite("a", c, mode)
  \/ \E c \in SignalContents : SessionWrite("c", c, 0)
  \/ \E p \in {"a", "c"} : SessionRemove(p)
  \/ CorruptBlob(ShaOf(1))
  \/ \E p \in {"a", "c"}, too_large \in BOOLEAN : Put(p, too_large)
  \/ \E p \in {"a", "c"} : VerifyRepair(p)
  \/ \E p \in {"a", "c"} : SessionDelete(p)
  \/ Commit

SpecSession == Init /\ [][NextSession]_vars

\* one unlock scope whose body saves and deletes file a, which is removed and
\* written again with the same content, while time passes
NextTimed ==
  \/ Unlock(FALSE, FALSE, TRUE)
  \/ SessionWrite("a", 1, 0)
  \/ SessionRemove("a")
  \/ Tick
  \/ Put("a", FALSE)
  \/ SessionDelete("a")
  \/ Commit

SpecTimed == Init /\ [][NextTimed]_vars

\* one unlock scope in which file a is saved again and again, each time with
\* another content, for one row more than the other specifications allow
NextChain ==
  \/ Unlock(FALSE, FALSE, TRUE)
  \/ \E c \in Contents : SessionWrite("a", c, 0)
  \/ SaveIfNewCallWithin(MaxRows + 1, "a", FALSE, FALSE, TRUE)
  \/ Commit

SpecChain == Init /\ [][NextChain]_vars

\* backup runs over one file, each to its end, with a store that can lose the
\* manifest object while lock_manifest runs
NextLock ==
  \/ \E c \in SignalContents : WriteFile("a", c, 0)
  \/ RemoveFile("a")
  \/ \E preserve \in PreserveValues : Unlock(FALSE, preserve, TRUE)
  \/ ScanFile("a", FALSE, TRUE)
  \/ Commit
  \/ EndScan
  \/ DeleteStep("a")
  \/ ExitBody
  \/ Cleanup({TRUE}, {2})
  \/ LoseSavedManifest

SpecLock == Init /\ [][NextLock]_vars

\* the clocks of the locks of a store that has been in use from second 8 to
\* second 11, one lock a second at most
NameClocks == {2 * s : s \in 8..11}

RECURSIVE Ascending(_)
\* the clocks of a set from the earliest to the latest
Ascending(S) ==
  IF S = {} THEN <<>>
  ELSE LET least == CHOOSE t \in S : \A u \in S : t <= u
       IN <<least>> \o Ascending(S \ {least})

\* the manifest locked at clock t by a backup set whose runs locked at the
\* clocks tss: file a was saved by the first run and had its mode changed
\* before every later one, so each run added a row of the same sha
ManifestLockedAt(tss, t, key_pair) ==
  LET locks == Ascending({u \in tss : u <= t})
  IN [ts |-> t,
      rows |-> [i \in 1..Len(locks) |->
                 [abs_file_name |-> "a", sha |-> ShaOf(1), uid |-> 0, gid |-> 0,
                  mode |-> i % 2, key_pair |-> key_pair,
                  commit_timestamp |-> IntTime(locks[i])]],
      base_shas |-> {}]

\* a store that holds the manifests of earlier runs, max_manifest_versions
\* being off, and the source tree as the last of these runs saw it
InitNames ==
  /\ use_encryption \in BOOLEAN
  /\ \E tss \in (SUBSET NameClocks) \ {{}} :
       LET key_pair == generate_key_pair(use_encryption, 1)
       IN /\ manifestObjs = {ManifestLockedAt(tss, t, key_pair) : t \in tss}
          /\ keyObjs = IF use_encryption THEN tss ELSE {}
          /\ files = [p \in Paths |->
                        IF p = "a" THEN [content |-> 1, uid |-> 0, gid |-> 0,
                                         mode |-> Cardinality(tss) % 2]
                        ELSE NoFile]
          /\ blobs = [s \in Shas |-> IF s = ShaOf(1)
                                      THEN [orig |-> 0, new |-> 1, key |-> key_pair]
                                      ELSE NoBlob]
  /\ manifest = [s \in Stores |-> NoManifest]
  /\ scratch = {}
  /\ UNLOCKED_STORE = "none"
  /\ sigdisp = [s \in Signals |-> "DFL"]
  /\ hargs = [dry_run |-> FALSE, preserve |-> FALSE]
  /\ stack = <<IdleFrame>>
  /\ marked = {}
  /\ pending_del = {}
  /\ new_entry = NoEntry
  /\ nextKey = 2
  /\ now = 24
  /\ runs = 0
  /\ exitCode = Null
  /\ uploads = 0
  /\ mutated = FALSE
  /\ orphaned = [p \in Paths |-> "no"]
  /\ codec = IdleCodec /\ sealer = IdleSealer /\ rotation = IdleRotation
  /\ saving = IdleSaving /\ reading = IdleReading

\* backup runs over a store that holds the manifests of earlier runs
NextNames ==
  \/ \E dry_run \in BOOLEAN : Unlock(dry_run, FALSE, TRUE)
  \/ ScanFile("a", FALSE, TRUE)
  \/ Commit
  \/ EndScan
  \/ ExitBody
  \/ \E dt \in {0} : DcStart(TRUE, dt)
  \/ UnregisterStore

SpecNames == InitNames /\ [][NextNames]_vars

\* a diff is computed between two byte strings and applied to the first
InitDiff ==
  /\ InitStore
  /\ sealer = IdleSealer
  /\ rotation = IdleRotation
  /\ saving = IdleSaving /\ reading = IdleReading
  /\ \E orig \in ByteStrings, new \in ByteStrings, block_size \in BlockSizes :
       codec = CodecStart(orig, new, block_size)

NextDiff ==
  \/ ComputeBlock
  \/ ComputeReturn
  \/ ApplyStep
  \/ ApplyRest

SpecDiff == InitDiff /\ [][NextDiff]_vars

\* the steps a diff can hold at a position of a file of length n: a deletion or
\* a replacement of bytes the file has, an insertion of up to MaxLen - 1 bytes
StepsAt(n, pos) ==
  {[pos |-> pos, action |-> "D", len |-> k, contents |-> <<>>] : k \in 1..(n - pos)}
    \cup {[pos |-> pos, action |-> "X", len |-> Len(b), contents |-> b] :
            b \in {x \in ByteStrings : Len(x) \in 1..(n - pos)}}
    \cup {[pos |-> pos, action |-> "I", len |-> Len(b), contents |-> b] :
            b \in {x \in ByteStrings : Len(x) \in 1..(MaxLen - 1)}}

\* the length of a file of length n after a step
LenAfter(n, step) ==
  IF step.action = "D" THEN n - step.len
  ELSE IF step.action = "I" THEN n + step.len ELSE n

\* the end of a step in the file as it is after the step
EndOf(step) == IF step.action = "D" THEN step.pos ELSE step.pos + step.len

\* the diffs of one or two steps for a file of length n, each position being
\* one of the file as it is after the earlier steps (blob.py 15-16), behind
\* what the earlier steps wrote
WellFormedDiffs(n) ==
  LET first == UNION {StepsAt(n, pos) : pos \in 0..n} IN
  {<<s1>> : s1 \in first}
    \cup UNION {{<<s1, s2>> :
                   s2 \in UNION {StepsAt(LenAfter(n, s1), pos) :
                                   pos \in EndOf(s1)..LenAfter(n, s1)}} :
                s1 \in first}

\* apply_diff is called with an original and a well-formed diff
InitApply ==
  /\ InitStore
  /\ sealer = IdleSealer
  /\ rotation = IdleRotation
  /\ saving = IdleSaving /\ reading = IdleReading
  /\ \E orig \in ByteStrings :
       \E diff \in WellFormedDiffs(Len(orig)) :
         codec = [CodecStart(orig, <<>>, 1) EXCEPT !.pc = "apply", !.diff = diff]

NextApply ==
  \/ ApplyStep
  \/ ApplyRest

SpecApply == InitApply /\ [][NextApply]_vars

\* apply_diff is called with an original and a diff, well formed or not
InitParse ==
  /\ InitStore
  /\ sealer = IdleSealer
  /\ rotation = IdleRotation
  /\ saving = IdleSaving /\ reading = IdleReading
  /\ \E orig \in Texts, text \in MalformedDiffs \cup StepPrefixes, block_size \in BlockSizes :
       codec = [CodecStart(orig, <<>>, block_size) EXCEPT !.pc = "parse", !.text = text]

NextParse ==
  \/ ReadChunk
  \/ ParseStep
  \/ ApplyRest

SpecParse == InitParse /\ [][NextParse]_vars

\* a plaintext is sealed and the sealed object is opened again
InitSeal ==
  /\ InitStore
  /\ codec = IdleCodec
  /\ rotation = IdleRotation
  /\ saving = IdleSaving /\ reading = IdleReading
  /\ \E plain \in ByteStrings, use_compression \in BOOLEAN, block_size \in BlockSizes :
       \E key_pair \in (IF use_encryption THEN SealKeys ELSE {EmptyKey}) :
         sealer = SealerStart(plain, key_pair, use_compression, block_size)

NextSeal ==
  \/ SealBlock
  \/ SealLast
  \/ OpenBlock
  \/ OpenEnd

SpecSeal == InitSeal /\ [][NextSeal]_vars

\* as SpecSeal, with a stored object or a tag that is damaged before it is read
NextTamper ==
  \/ SealBlock
  \/ SealLast
  \/ Tamper
  \/ OpenBlock
  \/ OpenEnd

SpecTamper == InitSeal /\ [][NextTamper]_vars

\* rotate_manifests is called after a lock, for every value of the option
InitRotate ==
  /\ files = [p \in Paths |-> NoFile]
  /\ blobs = [s \in Shas |-> NoBlob]
  /\ use_encryption \in BOOLEAN
  /\ manifest = [s \in Stores |-> NoManifest]
  /\ scratch = {}
  /\ UNLOCKED_STORE = "none"
  /\ sigdisp = [s \in Signals |-> "DFL"]
  /\ hargs = [dry_run |-> FALSE, preserve |-> FALSE]
  /\ stack = <<IdleFrame>>
  /\ marked = {}
  /\ pending_del = {}
  /\ new_entry = NoEntry
  /\ nextKey = 1
  /\ now = 0
  /\ runs = 0
  /\ exitCode = Null
  /\ uploads = 0
  /\ mutated = FALSE
  /\ orphaned = [p \in Paths |-> "no"]
  /\ codec = IdleCodec
  /\ sealer = IdleSealer
  /\ saving = IdleSaving /\ reading = IdleReading
  /\ \E tss \in (SUBSET (1..MaxManifests)) \ {{}} :
       /\ StoreAfterLock(tss)
       /\ \E max_versions \in MaxVersionsValues, backend \in Backends :
            rotation = [pc |-> "query", max_versions |-> max_versions, backend |-> backend,
                        todel |-> <<>>, before |-> tss,
                        uploaded |-> CHOOSE t \in tss : \A u \in tss : u <= t]

NextRotate ==
  \/ RotateQuery
  \/ RotateDelete

SpecRotate == InitRotate /\ [][NextRotate]_vars

\* calls of BackupStore.save on a store of either class
InitSave ==
  /\ InitStore
  /\ codec = IdleCodec /\ sealer = IdleSealer /\ rotation = IdleRotation
  /\ reading = IdleReading
  /\ \E backend \in Backends : saving = [IdleSaving EXCEPT !.backend = backend]

NextSave ==
  \/ \E dest \in Shas, key_pair \in SealKeys \cup {EmptyKey} :
       SaveCall(dest, ContentOfSha(dest), key_pair)
  \/ SaveOpen
  \/ \E ok \in Outcomes : SaveSeal(ok)
  \/ \E ok \in Outcomes : SaveBackend(ok)
  \/ SaveRemove

SpecSave == InitSave /\ [][NextSave]_vars

\* ------------------------------------------- save_if_new against a writer
\* save_if_new of a file that has no row and no blob yet: compute_sha reads the
\* file through IOIter.reader (pass 1), then _write_copy has save read it again
\* through the reader of the same IOIter while compress_and_encrypt seals it
\* (pass 2).  A SHA-256 is written as the bytes that were fed to the hash, two
\* digests being equal exactly when these bytes are.
notReading == <<saving, rotation, sealer, codec, files, blobs, manifestObjs, keyObjs,
                use_encryption, manifest, scratch, UNLOCKED_STORE, sigdisp, hargs, stack,
                marked, pending_del, new_entry, nextKey, now, runs, exitCode, uploads,
                mutated, orphaned>>

\* fd.read(n) at position pos
fd_read(file, pos, n) == SubSeq(file, pos + 1, Min(pos + n, Len(file)))

\* IOIter._check_mtime at the head of a pass of the reader's loop
CheckMtime ==
  /\ reading.pc = "check"
  /\ reading' = IF reading.mtime # reading.enter_mtime
                  THEN [reading EXCEPT !.pc = "done", !.raised = "FileChanged"]
                  ELSE [reading EXCEPT !.pc = "read"]
  /\ UNCHANGED notReading

\* the rest of a pass of the reader's loop: the read of requested_read_size
\* bytes; an empty read ends the reader, after which compute_sha returns the
\* digest (pass 1) or save uploads the sealed blob under that digest and
\* save_if_new inserts the row (pass 2)
ReaderRead ==
  /\ reading.pc = "read"
  /\ LET requested_read_size == Min(reading.block_size, Len(reading.file))
         data == fd_read(reading.file, reading.pos, requested_read_size)
     IN  reading' =
           IF data # <<>>
             THEN IF reading.pass = 1
                    THEN [reading EXCEPT !.pc = "check", !.pos = @ + Len(data),
                                         !.hashed = @ \o data]
                    ELSE [reading EXCEPT !.pc = "check", !.pos = @ + Len(data),
                                         !.sealed = @ \o data]
             ELSE IF reading.pass = 1
                    THEN [reading EXCEPT !.pc = "check", !.pass = 2, !.pos = 0]
                    ELSE [reading EXCEPT !.pc = "done",
                                         !.blob_sha = reading.hashed,
                                         !.blob_plain = reading.sealed,
                                         !.row_sha = reading.hashed,
                                         !.committed = TRUE]
  /\ UNCHANGED notReading

\* another process appends a byte to the file
WriterAppend(b) ==
  /\ reading.pc \in {"check", "read"}
  /\ reading.writes < MaxWrites
  /\ Len(reading.file) < MaxLen
  /\ reading' = [reading EXCEPT !.file = Append(@, b), !.mtime = @ + 1, !.writes = @ + 1]
  /\ UNCHANGED notReading

\* another process overwrites byte i of the file
WriterOverwrite(i, b) ==
  /\ reading.pc \in {"check", "read"}
  /\ reading.writes < MaxWrites
  /\ i \in 1..Len(reading.file)
  /\ reading.file[i] # b
  /\ reading' = [reading EXCEPT !.file[i] = b, !.mtime = @ + 1, !.writes = @ + 1]
  /\ UNCHANGED notReading

\* another process truncates the file to n bytes
WriterTruncate(n) ==
  /\ reading.pc \in {"check", "read"}
  /\ reading.writes < MaxWrites
  /\ n < Len(reading.file)
  /\ reading' = [reading EXCEPT !.file = SubSeq(@, 1, n), !.mtime = @ + 1,
                                !.writes = @ + 1]
  /\ UNCHANGED notReading

\* IOIter.__enter__ has opened the file and recorded its mtime
InitRace ==
  /\ InitStore
  /\ codec = IdleCodec /\ sealer = IdleSealer /\ rotation = IdleRotation
  /\ saving = IdleSaving
  /\ \E file \in ByteStrings, block_size \in BlockSizes :
       reading = [IdleReading EXCEPT !.pc = "check", !.file = file, !.mtime = 1,
                                     !.enter_mtime = 1, !.block_size = block_size,
                                     !.pass = 1]

NextRace ==
  \/ CheckMtime
  \/ ReaderRead
  \/ \E b \in Alphabet : WriterAppend(b)
  \/ \E i \in 1..MaxLen, b \in Alphabet : WriterOverwrite(i, b)
  \/ \E n \in 0..MaxLen : WriterTruncate(n)

SpecRace == InitRace /\ [][NextRace]_vars

\* backup runs over two files whose save_if_new may raise, before the upload
\* (the backend fails) or between the upload and the insert
NextScan ==
  \/ \E p \in {"a", "b"}, c \in SignalContents : WriteFile(p, c, 0)
  \/ \E p \in {"a", "b"} : RemoveFile(p)
  \/ Unlock(FALSE, FALSE, TRUE)
  \/ \E p \in {"a", "b"}, save_ok \in BOOLEAN : ScanFile(p, FALSE, save_ok)
  \/ Commit
  \/ AbortSave
  \/ EndScan
  \/ \E p \in {"a", "b"} : DeleteStep(p)
  \/ ExitBody
  \/ Cleanup({TRUE}, {2})

SpecScan == Init /\ [][NextScan]_vars

TypeOK ==
  /\ now \in 0..MaxTime
  /\ runs \in 0..MaxRuns
  /\ Len(stack) \in 1..4
  /\ UNLOCKED_STORE \in Stores \cup {"none"}

\* ------------------------------------------------------------------ claims
\* the manifests a restore can be asked to read: the unlocked manifest of
\* each store object and every manifest object of the store
ManifestsInUse ==
  {manifest[s] : s \in {t \in Stores : manifest[t].open}}
    \cup {OpenManifest(o) : o \in manifestObjs}

\* the rows of a manifest that carry a sha
ShaRows(m) == {i \in 1..Len(m.rows) : m.rows[i].sha # Null}

\* the rows of a manifest for a path
PathRows(m, p) == {i \in 1..Len(m.rows) : m.rows[i].abs_file_name = p}

\* restore_entry of row i of manifest m writes the content whose sha the row
\* carries
RestoresRight(m, i) ==
  restore_entry(blobs, use_encryption, JoinRow(m, m.rows[i])) = ContentOfSha(m.rows[i].sha)

\* the frames of the stack whose unlock() has yielded and whose body is not over
OpenScopes ==
  {i \in 1..Len(stack) : stack[i].fn \in {"main", "inner"} /\ stack[i].pc \in BodyPcs}

\* the running frame is a signal handler and the step is one of its own
HandlerStep ==
  /\ Top.fn \in Signals
  /\ Len(stack') = Len(stack)
  /\ Top' # Top

\* C1: after any sequence of backup runs, restore_entry of every manifest row
\* with a non-null sha writes the bytes whose SHA-256 is the sha of the row
C1_RestoreReproducesContent ==
  \A m \in ManifestsInUse : \A i \in ShaRows(m) : RestoresRight(m, i)

\* C2: in every state, also after a crash or an abort inside save_if_new,
\* every manifest row with a non-null sha names a blob present in the store
C2_BlobBeforeRow ==
  \A m \in ManifestsInUse : \A i \in ShaRows(m) : blobs[m.rows[i].sha] # NoBlob

\* C2, its case: a process has died or a save_if_new was aborted after an
\* upload: the store holds a blob that no row names, next to committed rows
C2_BlobWithoutRow ==
  /\ stack = <<IdleFrame>>
  /\ \E m \in ManifestsInUse : ShaRows(m) # {}
  /\ \E sha \in Shas :
       /\ blobs[sha] # NoBlob
       /\ \A m \in ManifestsInUse : \A i \in ShaRows(m) : m.rows[i].sha # sha

\* C3: when a process starts (also after the previous one died inside
\* cleanup) with encryption on, the newest manifest object of the store has
\* its manifest-key object
C3_NewestManifestHasKey ==
  (stack = <<IdleFrame>> /\ use_encryption /\ manifestObjs # {})
    => NewestManifest(manifestObjs).ts \in keyObjs

\* C4: a path without rows whose save_if_new was aborted between upload and
\* insert has no row in any manifest until a later save_if_new of the
\* unchanged file commits, and that commit leaves exactly one row for the
\* path, with the sha of the content of the file, from which the content is
\* restored
C4_AbortedSaveRecommitted ==
  /\ [](\A p \in Paths : orphaned[p] = "pending" =>
          \A m \in ManifestsInUse : PathRows(m, p) = {})
  /\ [][\A p \in Paths :
          (orphaned[p] = "pending" /\ orphaned'[p] = "recommitted") =>
            LET m == manifest'["s1"]
                idx == PathRows(m, p)
            IN /\ Cardinality(idx) = 1
               /\ \A i \in idx :
                    /\ m.rows[i].sha = ShaOf(files[p].content)
                    /\ restore_entry(blobs', use_encryption, JoinRow(m, m.rows[i]))
                         = files[p].content]_vars

\* C4, its case: the row of a path whose first save was aborted after the
\* upload has been committed by a later run
C4_Recommitted ==
  \E p \in Paths : orphaned[p] = "recommitted" /\ runs = 2

\* C5: BackupStore.manifest raises ManifestLockedException, that is
\* self._manifest is None, whenever no unlock scope of the store is active
C5_ManifestLockedOutsideScope ==
  \A s \in Stores : ~ScopeActive(s) => ~manifest[s].open

\* C6: at no time have two unlock() calls of the process yielded without
\* either having left its body
C6_OneScopeAtATime == Cardinality(OpenScopes) <= 1

\* C7: the handler sets its signal to SIG_IGN on entry; with a store
\* registered it enters do_cleanup of that store, once, and a changed manifest
\* of a run that is not a dry run is then uploaded unless the backend fails;
\* it raises SystemExit(0) only when do_cleanup has returned, leaving
\* self._manifest None, and SystemExit(1) only when do_cleanup has raised;
\* without a registered store it raises SystemExit(0) and touches nothing; the
\* process ends with the status of the SystemExit that reaches the bottom
C7_HandlerCleansUpAndExits ==
  [][/\ \A sig \in Signals :
          (Len(stack') = Len(stack) + 1 /\ Top'.fn = sig) =>
             /\ sigdisp'[sig] = "IGN"
             /\ storeVars' = storeVars
             /\ manifest' = manifest
             /\ IF UNLOCKED_STORE = "none"
                THEN Top'.pc = "raise" /\ Top'.exc = "exit0"
                ELSE Top'.pc = "dc_start" /\ Top'.exc = "none"
                     /\ Top'.store = UNLOCKED_STORE
     /\ HandlerStep =>
          /\ Top.pc # "dc_start" => Top'.pc # "dc_start"
          /\ (Top.pc = "dc_start" /\ manifest[Top.store].open
                /\ manifest[Top.store].changed /\ ~Top.dry_run) =>
               \/ /\ uploads' = uploads + 1
                  /\ [ts |-> now, rows |-> manifest[Top.store].rows,
                      base_shas |-> manifest[Top.store].base_shas] \in manifestObjs'
                  /\ Top'.exc = "none"
               \/ /\ storeVars' = storeVars
                  /\ Top'.exc = "exit1"
          /\ (Top.exc = "none" /\ Top'.exc = "exit0") =>
               /\ Top.pc \in CleanupPcs
               /\ ~manifest'[Top.store].open
          /\ (Top.exc = "none" /\ Top'.exc = "exit1") =>
               /\ Top.pc \in CleanupPcs
               /\ storeVars' = storeVars
          /\ Top.exc # "none" => Top'.exc = Top.exc
     /\ (Main.pc # "exited" /\ Main'.pc = "exited") =>
          /\ Main.exc \in {"exit0", "exit1"}
          /\ exitCode' = IF Main.exc = "exit0" THEN 0 ELSE 1]_vars

\* C7, its case: a handler that found a changed manifest has uploaded it and
\* raised SystemExit(0)
C7_HandlerExitsZero ==
  /\ Top.fn \in Signals /\ Top.pc = "raise" /\ Top.exc = "exit0"
  /\ ~Top.dry_run /\ mutated /\ uploads = 1

\* C8: between an unlock and the end of its scope a manifest that
\* insert_or_update or delete has changed is uploaded at most once, whatever
\* signals arrive
C8_ManifestUploadedOnce == mutated => uploads <= 1

\* C9 as stated: while no insert_or_update and no delete has been performed
\* since the unlock, no step uploads or deletes a manifest object or a
\* manifest-key object, whatever the store held at unlock
C9_UnchangedScopeUploadsNothing ==
  [][~mutated => (manifestObjs' = manifestObjs /\ keyObjs' = keyObjs)]_vars

\* C9 amended: the same, in a scope whose store held a manifest at unlock
C9_UnchangedScopeOnExistingStore ==
  [][(~mutated /\ uploads = 0 /\ manifestObjs # {})
       => (manifestObjs' = manifestObjs /\ keyObjs' = keyObjs)]_vars

\* C9, its case: a scope on a store that holds a manifest, in which nothing
\* was inserted or deleted, has finished its cleanup
C9_UnchangedScopeCleanedUp ==
  /\ Main.pc = "unreg0" /\ Main.exc = "none"
  /\ ~mutated /\ uploads = 0 /\ manifestObjs # {}

\* C10: from the yield of unlock(dry_run=True), which has registered the
\* handler with dry_run=True, to the end of the run, no object of the store is
\* written or deleted and no row is added to the manifest
C10_DryRunLeavesStore ==
  [][(Main.dry_run /\ hargs.dry_run /\ Main.pc \notin {"idle", "exited"}) =>
        /\ storeVars' = storeVars
        /\ manifest'["s1"].open => manifest'["s1"].rows = manifest["s1"].rows]_vars

\* C10, its case: a dry run over a file whose content the store does not hold
\* has gone through its scan, its deletions and its cleanup
C10_DryRunDone ==
  /\ Main.dry_run /\ Main.pc = "unreg0" /\ Main.exc = "none"
  /\ files["a"] # NoFile
  /\ blobs[ShaOf(files["a"].content)] = NoBlob

\* the row insert_or_update stores for an entry committed at clock t
RowOf(entry, t) ==
  [abs_file_name |-> entry.abs_file_name, sha |-> entry.sha, uid |-> entry.uid,
   gid |-> entry.gid, mode |-> entry.mode, key_pair |-> entry.key_pair,
   commit_timestamp |-> IntTime(t)]

\* some row of the manifest carries the sha
ShaKnown(m, sha) == \E i \in ShaRows(m) : m.rows[i].sha = sha

\* C11: for every file and every force_copy, dry_run and diff size, a
\* save_if_new that returns has chosen by the table: with force_copy, without
\* a current entry or on a tombstone an entry for the new sha and never a diff
\* blob; on a changed sha an entry for the new sha, with a copy blob on a
\* skip_diff_patterns path and a diff blob otherwise (a copy when the diff is
\* too large); on changed uid, gid or mode alone the current entry with the
\* new metadata and no blob; otherwise no entry and no blob. A blob is written
\* only outside a dry run and, without force_copy, only for a sha no row
\* carries. A row with a sha is inserted only by the one insert that follows
\* an entry produced outside a dry run, and a written blob is always followed
\* by that insert
C11_SaveIfNewDecision ==
  /\ [](\A p \in Paths, force_copy \in BOOLEAN, dry_run \in BOOLEAN, too_large \in BOOLEAN :
          (manifest["s1"].open /\ files[p] # NoFile) =>
            LET m == manifest["s1"]
                file == files[p]
                cur == get_entry(m, p, IntTime(now))
                sha == ShaOf(file.content)
                r == save_if_new(m, blobs, use_encryption, nextKey, now, p, file,
                                 dry_run, force_copy, too_large, TRUE)
                wroteCopy == r.saved /\ r.blobs[sha].orig = 0
                wroteDiff == r.saved /\ r.blobs[sha].orig # 0
                copyCase == force_copy \/ cur = NoEntry \/ cur.sha = Null
                changed == ~copyCase /\ sha # cur.sha
                meta == ~copyCase /\ ~changed
                          /\ (file.uid # cur.uid \/ file.gid # cur.gid \/ file.mode # cur.mode)
                fresh == ~dry_run /\ ~ShaKnown(m, sha)
            IN ~r.raised =>
                 /\ ~r.saved => r.blobs = blobs
                 /\ copyCase =>
                      /\ r.entry.abs_file_name = p /\ r.entry.sha = sha
                      /\ r.entry.mode = file.mode
                      /\ ~wroteDiff
                      /\ wroteCopy <=> (~dry_run /\ (force_copy \/ ~ShaKnown(m, sha)))
                 /\ (changed /\ p \in skip_diff_patterns) =>
                      /\ r.entry.abs_file_name = p /\ r.entry.sha = sha
                      /\ r.entry.mode = file.mode
                      /\ ~wroteDiff
                      /\ wroteCopy <=> fresh
                 /\ (changed /\ p \notin skip_diff_patterns) =>
                      /\ r.entry.abs_file_name = p /\ r.entry.sha = sha
                      /\ r.entry.mode = file.mode
                      /\ wroteDiff <=> (fresh /\ ~too_large)
                      /\ wroteCopy <=> (fresh /\ too_large)
                      /\ wroteDiff => r.entry.base_sha \in {cur.sha, cur.base_sha}
                 /\ meta =>
                      /\ r.entry = [cur EXCEPT !.uid = file.uid, !.gid = file.gid,
                                               !.mode = file.mode, !.commit_timestamp = 0]
                      /\ ~r.saved
                 /\ (~copyCase /\ ~changed /\ ~meta) =>
                      /\ r.entry = NoEntry
                      /\ ~r.saved)
  /\ [](Main.pc = "commit" => (new_entry # NoEntry /\ ~Main.dry_run))
  /\ [][/\ (manifest["s1"].open /\ manifest'["s1"].open
             /\ manifest'["s1"].rows # manifest["s1"].rows
             /\ manifest'["s1"].rows[Len(manifest'["s1"].rows)].sha # Null) =>
               /\ Main.pc = "commit" /\ Main'.pc = "scan"
               /\ manifest'["s1"].rows = Append(manifest["s1"].rows, RowOf(new_entry, now))
        /\ (Main.pc = "scan" /\ blobs' # blobs
             /\ \A sha \in Shas : blobs'[sha] # blobs[sha] => blobs'[sha] # CorruptedBlob) =>
               /\ Main'.pc = "commit"
               /\ blobs'[new_entry'.sha] # blobs[new_entry'.sha]
        /\ Main.pc = "commit" =>
               manifest'["s1"].rows = Append(manifest["s1"].rows, RowOf(new_entry, now))]_vars

\* C11, its case: a metadata-only row was committed for file a, and file c,
\* which matches skip_diff_patterns, was saved in two versions, the second as
\* a copy although a diff could have been computed
C11_EveryBranchTaken ==
  LET m == manifest["s1"] IN
  /\ use_encryption /\ m.open
  /\ \E i, j \in PathRows(m, "a") :
       i < j /\ m.rows[i].sha = m.rows[j].sha /\ m.rows[i].mode # m.rows[j].mode
  /\ \E i, j \in PathRows(m, "c") :
       /\ i < j /\ m.rows[i].sha # Null /\ m.rows[j].sha # Null
       /\ m.rows[i].sha # m.rows[j].sha
       /\ blobs[m.rows[j].sha].orig = 0
       /\ blobs[m.rows[j].sha].key = m.rows[j].key_pair

\* C12: when save_if_new has inserted its row, a second save_if_new on the
\* same file, unchanged, at that time or later, with a small or a large diff,
\* produces no entry and saves no blob; a path without rows before the first
\* call has exactly one row after the second, and the first call has written
\* at most the one blob of the file
C12_SecondSaveDoesNothing ==
  [][(Main.pc = "commit" /\ Main'.pc = "scan") =>
       LET p == new_entry.abs_file_name
           m == manifest'["s1"]
       IN \A t \in now..MaxTime, too_large \in BOOLEAN :
            LET r == save_if_new(m, blobs', use_encryption, nextKey', t, p, files'[p],
                                 FALSE, FALSE, too_large, TRUE)
                m2 == IF r.entry = NoEntry THEN m ELSE insert_or_update(m, r.entry, t)
            IN /\ ~r.raised /\ r.entry = NoEntry /\ ~r.saved /\ r.blobs = blobs'
               /\ PathRows(manifest["s1"], p) = {} => Cardinality(PathRows(m2, p)) = 1
               /\ blobs[ShaOf(files[p].content)] # NoBlob]_vars

\* C12, its case: file a, saved once by a first save_if_new that uploaded its
\* blob, is unchanged and has one row; a second save_if_new can be called
C12_SavedOnceUnchanged ==
  LET m == manifest["s1"] IN
  /\ Main.pc = "scan" /\ ~Main.dry_run /\ m.open /\ files["a"] # NoFile
  /\ Cardinality(PathRows(m, "a")) = 1
  /\ get_entry(m, "a", IntTime(now)).sha = ShaOf(files["a"].content)
  /\ get_entry(m, "a", IntTime(now)).mode = files["a"].mode
  /\ blobs[ShaOf(files["a"].content)].key = get_entry(m, "a", IntTime(now)).key_pair
  /\ ENABLED Put("a", FALSE)

\* the newest row of a path in insertion order, 0 without rows
NewestRow(m, p) ==
  IF PathRows(m, p) = {} THEN 0
  ELSE CHOOSE i \in PathRows(m, p) : \A j \in PathRows(m, p) : j <= i

\* C13: when save_if_new inserts the row of a file that was deleted (the
\* newest row of its path is a tombstone) and re-created, whatever the clock
\* shows at the delete and at the insert, the path has one row more, the
\* tombstone and the rows before it are still there, get_entry returns the
\* new row and files() contains the path
C13_RecreatedFileIsTracked ==
  [][(/\ Main.pc = "commit" /\ Main'.pc = "scan"
      /\ NewestRow(manifest["s1"], new_entry.abs_file_name) # 0
      /\ manifest["s1"].rows[NewestRow(manifest["s1"], new_entry.abs_file_name)].sha = Null) =>
       LET p == new_entry.abs_file_name
           m == manifest'["s1"]
       IN /\ PathRows(m, p) = PathRows(manifest["s1"], p) \cup {Len(m.rows)}
          /\ SubSeq(m.rows, 1, Len(m.rows) - 1) = manifest["s1"].rows
          /\ get_entry(m, p, IntTime(now')) = JoinRow(m, m.rows[Len(m.rows)])
          /\ get_entry(m, p, IntTime(now')).sha = ShaOf(files[p].content)
          /\ p \in manifest_files(m, IntTime(now'))]_vars

\* C14: in every state of a session, for each of its paths and every content
\* and mode the file can have, a save_if_new without force_copy of content whose sha a manifest
\* row carries writes no blob and draws no key pair, and the entry it
\* produces has the key_pair, base_sha and base_key_pair of a row with that
\* sha
C14_KnownShaIsNotUploaded ==
  \A p \in {"a", "c"}, c \in SignalContents, mode \in Modes, too_large \in BOOLEAN :
    LET m == manifest["s1"]
        sha == ShaOf(c)
        r == save_if_new(m, blobs, use_encryption, nextKey, now, p,
                         [content |-> c, uid |-> 0, gid |-> 0, mode |-> mode],
                         Main.dry_run, FALSE, too_large, TRUE)
    IN (m.open /\ ShaKnown(m, sha)) =>
         /\ ~r.saved /\ r.blobs = blobs /\ r.nextKey = nextKey
         /\ r.entry # NoEntry =>
              /\ r.entry.sha = sha
              /\ \E i \in ShaRows(m) :
                   /\ m.rows[i].sha = sha
                   /\ r.entry.key_pair = JoinRow(m, m.rows[i]).key_pair
                   /\ r.entry.base_sha = JoinRow(m, m.rows[i]).base_sha
                   /\ r.entry.base_key_pair = JoinRow(m, m.rows[i]).base_key_pair

\* C14, its case: files a and c were saved with the same content: their rows
\* carry one sha and one key pair, that of the one blob
C14_TwoFilesOneBlob ==
  LET m == manifest["s1"] IN
  /\ use_encryption /\ m.open
  /\ \E i \in PathRows(m, "a"), j \in PathRows(m, "c") :
       /\ m.rows[i].sha # Null /\ m.rows[i].sha = m.rows[j].sha
       /\ m.rows[i].key_pair = m.rows[j].key_pair
       /\ blobs[m.rows[i].sha].key = m.rows[i].key_pair
       /\ nextKey = 2

\* C15: in every state all manifest rows with one non-null sha carry one
\* key_pair, and _find_existing_entry_data of a sha of the manifest does
\* not fail its assertion
C15_OneKeyPairPerSha ==
  LET m == manifest["s1"] IN
  m.open =>
    /\ \A i, j \in ShaRows(m) :
         m.rows[i].sha = m.rows[j].sha => m.rows[i].key_pair = m.rows[j].key_pair
    /\ \A c \in Contents : ~find_existing_entry_data(m, ShaOf(c)).raised

\* C17: the manifest never holds two rows of a backed-up file (rows with a
\* sha; SQL compares the nulls of two tombstones as different) that are equal
\* on (abs_file_name, sha, uid, gid, mode): an insert_or_update that matches a
\* row on the five fields adds no row, so neither does a verify repair, the
\* commit of a save_if_new with force_copy of unchanged content
C17_NoDuplicateRows ==
  LET m == manifest["s1"] IN
  m.open =>
    \A i, j \in ShaRows(m) :
      (/\ m.rows[i].abs_file_name = m.rows[j].abs_file_name
       /\ m.rows[i].sha = m.rows[j].sha
       /\ m.rows[i].uid = m.rows[j].uid
       /\ m.rows[i].gid = m.rows[j].gid
       /\ m.rows[i].mode = m.rows[j].mode) => i = j

\* C18: in every state, for every sha S of a manifest row, base_shas holds a
\* row for S exactly when the blob stored under S is a diff, that row names
\* the base the diff was computed against, and every base_shas.sha is the sha
\* of a manifest row; so the commit of a further diff against the same base
\* keeps the base_shas row of an earlier diff
C18_BaseShasMatchDiffBlobs ==
  \A m \in ManifestsInUse :
    /\ \A i \in ShaRows(m) :
         LET S == m.rows[i].sha
             bs == {b \in m.base_shas : b.sha = S}
         IN /\ (bs # {}) <=> (blobs[S].orig # 0)
            /\ \A b \in bs : b.base_sha = ShaOf(blobs[S].orig)
    /\ \A b \in m.base_shas : \E i \in ShaRows(m) : m.rows[i].sha = b.sha

\* C19: in every state, for every manifest row that joins to a non-null
\* base_sha, the manifest has a row whose sha is that base_sha and the store
\* holds a blob under base_sha
C19_BaseRowAndBlobExist ==
  \A m \in ManifestsInUse : \A i \in ShaRows(m) :
    LET e == JoinRow(m, m.rows[i]) IN
    Truthy(e.base_sha) =>
      /\ \E j \in ShaRows(m) : m.rows[j].sha = e.base_sha
      /\ blobs[e.base_sha] # NoBlob

\* C19, its case: file a was saved as a diff, file c was saved with the same
\* content and shares that diff, and a has since been deleted
C19_SharedDiffAfterDelete ==
  LET m == manifest["s1"] IN
  /\ m.open /\ use_encryption
  /\ \E i \in PathRows(m, "a"), j \in PathRows(m, "c") :
       /\ m.rows[i].sha # Null /\ m.rows[i].sha = m.rows[j].sha
       /\ Truthy(JoinRow(m, m.rows[j]).base_sha)
       /\ blobs[m.rows[j].sha].orig # 0
  /\ \E i \in PathRows(m, "a") : m.rows[i].sha = Null

\* C16 as stated: every blob of the store, a copy or a diff, lies under the
\* SHA-256 of its own plaintext
C16_BlobUnderShaOfItsPlaintext ==
  \A S \in Shas : blobs[S] # NoBlob => plaintext_sha(blobs[S]) = S

\* C16: every blob that is a copy lies under the SHA-256 of its plaintext, and
\* every blob that is a diff lies under the SHA-256 of the file content the
\* diff was computed for
C16_BlobUnderShaOfFileContent ==
  \A S \in Shas : blobs[S] # NoBlob =>
    IF blobs[S].orig = 0 THEN plaintext_sha(blobs[S]) = S
    ELSE ShaOf(blobs[S].new) = S

\* C16, its case: the store holds a copy and a diff, both named by manifest
\* rows
C16_CopyAndDiffStored ==
  LET m == manifest["s1"] IN
  /\ m.open
  /\ \E i, j \in ShaRows(m) :
       /\ blobs[m.rows[i].sha] # NoBlob /\ blobs[m.rows[i].sha].orig = 0
       /\ blobs[m.rows[j].sha] # NoBlob /\ blobs[m.rows[j].sha].orig \in Contents
       /\ plaintext_sha(blobs[m.rows[j].sha]) # m.rows[j].sha

\* C20: when apply_diff has applied to the original the diff that
\* compute_sha_and_diff computed from the original and the new byte string, for
\* every pair of byte strings and every block size, its output is the new byte
\* string, and the sha that compute returned is that of the new byte string
C20_DiffRoundTrip ==
  codec.pc = "done" => (codec.out = codec.new /\ codec.sha = codec.new)

\* C21: when decrypt_and_unpack has read what compress_and_encrypt wrote for a
\* plaintext, with the key pair extended by the returned tag, under each of the
\* four combinations of use_compression and use_encryption, it has raised
\* nothing and has written exactly the plaintext
C21_SealOpenRoundTrip ==
  sealer.pc = "done" => (sealer.raised = "none" /\ sealer.out = sealer.plain)

\* C21, its case: a plaintext of several blocks was compressed, encrypted and
\* opened again
C21_OpenedCompressedEncrypted ==
  /\ sealer.pc = "done" /\ sealer.use_compression /\ use_encryption
  /\ Len(sealer.plain) > sealer.block_size
  /\ sealer.j > 1
  /\ sealer.signature # <<>>

\* C22: with use_encryption on, when the stored bytes or the tag differ from
\* what compress_and_encrypt produced, decrypt_and_unpack ends with
\* BackupCorruptedError
C22_TamperedFailsAsCorrupted ==
  (sealer.pc = "done" /\ sealer.tampered) => sealer.raised = "BackupCorruptedError"

\* C23: when rotate_manifests has ended, with max_manifest_versions = n >= 1
\* the store holds exactly the n manifests with the largest timestamps, or all
\* of them if there were fewer, the key object of every deleted manifest is
\* gone, and the manifest the lock just uploaded is kept; with
\* max_manifest_versions null nothing was deleted
C23_RotationKeepsNewest ==
  rotation.pc \in {"returned", "raised"} =>
    LET kept == {o.ts : o \in manifestObjs}
        n == rotation.max_versions
    IN IF n = Null
       THEN kept = rotation.before /\ keyObjs = (IF use_encryption THEN rotation.before ELSE {})
       ELSE /\ kept \subseteq rotation.before
            /\ Cardinality(kept) = Min(n, Cardinality(rotation.before))
            /\ \A t \in kept, u \in rotation.before \ kept : u < t
            /\ \A u \in rotation.before \ kept : u \notin keyObjs
            /\ rotation.uploaded \in kept

\* C24: whenever BackupStore.save has returned or raised, the staging file it
\* created in the scratch directory no longer exists
C24_StagingFileRemoved ==
  saving.pc \in {"returned", "raised"} => saving.filename \notin scratch

\* the step with which the outermost unlock() call ends, by returning or by
\* letting an exception out
UnlockEnds ==
  /\ Len(stack) = 1 /\ Len(stack') = 1
  /\ \/ Main.pc = "unreg2" /\ Main.exc = "none" /\ Main'.pc = "idle"
     \/ Main.pc = "raise" /\ Main'.pc \in {"idle", "exited"}

\* C25: unlock leaves in the scratch directory nothing but the manifest it has
\* fetched itself, and when unlock ends without preserve_scratch, on any path,
\* also one where the manifest could not be fetched, the scratch directory is
\* gone
C25_ScratchRemovedOnEveryExit ==
  /\ [][runs' = runs + 1 => scratch' \subseteq {ScratchDir, Top'.store}]_vars
  /\ [][UnlockEnds /\ ~Main.preserve => scratch' = {}]_vars

\* the step in which save_if_new raises for path p inside _scan_directory
SaveIfNewRaises(p) ==
  \/ \E save_ok \in BOOLEAN :
       /\ ScanFile(p, FALSE, save_ok)
       /\ save_if_new(manifest["s1"], blobs, use_encryption, nextKey, now, p, files[p],
                      Main.dry_run, FALSE, FALSE, save_ok).raised
  \/ AbortSave /\ new_entry.abs_file_name = p

\* the step in which main appends a tombstone for path p
TombstoneAppended(p) ==
  /\ Main.pc = "deleting" /\ Main'.pc = "deleting"
  /\ Len(manifest'["s1"].rows) = Len(manifest["s1"].rows) + 1
  /\ LET row == manifest'["s1"].rows[Len(manifest'["s1"].rows)]
     IN row.abs_file_name = p /\ row.sha = Null

ReachesComputeDiff(p) ==
  LET m == manifest["s1"]
      curr_entry == get_entry(m, p, IntTime(now))
      new_sha == ShaOf(files[p].content)
      base_sha == IF Truthy(curr_entry.base_sha) THEN curr_entry.base_sha
                  ELSE curr_entry.sha
      base_key_pair == IF Truthy(curr_entry.base_sha) THEN curr_entry.base_key_pair
                       ELSE curr_entry.key_pair
  IN /\ files[p] # NoFile
     /\ curr_entry # NoEntry /\ Truthy(curr_entry.sha)
     /\ new_sha # curr_entry.sha
     /\ p \notin skip_diff_patterns
     /\ ~find_existing_entry_data(m, new_sha).found
     /\ EntryAssertion(base_sha, base_key_pair)
     /\ load(blobs, use_encryption, base_sha, base_key_pair) # LoadError

\* C27: when compute_diff signals DiffTooLarge for a changed file (not a dry
\* run), save_if_new uploads exactly one blob, the full copy of the file under
\* the new sha, and the row it commits carries the new sha with base_sha and
\* base_key_pair null
C27_TooLargeDiffStoredAsCopy ==
  /\ [][\A p \in Paths : ScanFile(p, TRUE, TRUE) /\ ReachesComputeDiff(p) /\ ~Main.dry_run =>
          LET new_sha == ShaOf(files[p].content) IN
          /\ {sha \in Shas : blobs'[sha] # blobs[sha]} = {new_sha}
          /\ blobs'[new_sha].orig = 0 /\ blobs'[new_sha].new = files[p].content
          /\ Main'.pc = "commit"
          /\ new_entry'.abs_file_name = p /\ new_entry'.sha = new_sha
          /\ new_entry'.base_sha = Null /\ new_entry'.base_key_pair = Null]_vars
  /\ [][Main.pc = "commit" /\ Main'.pc = "scan" /\ new_entry.base_sha = Null =>
          LET committed == get_entry(manifest'["s1"], new_entry.abs_file_name, IntTime(now))
          IN /\ Len(manifest'["s1"].rows) = Len(manifest["s1"].rows) + 1
             /\ committed.sha = new_entry.sha
             /\ committed.base_sha = Null /\ committed.base_key_pair = Null]_vars

\* C27 witness: a changed file whose new sha no row carries has been saved as
\* a full copy with a null base although its path has a current entry and no
\* skip_diff_patterns regex matches it
C27_CopyForChangedFile ==
  LET m == manifest["s1"]
      curr_entry == get_entry(m, new_entry.abs_file_name, IntTime(now))
  IN /\ Main.pc = "commit" /\ ~Main.dry_run
     /\ new_entry.abs_file_name \in Paths \ skip_diff_patterns
     /\ curr_entry # NoEntry /\ Truthy(curr_entry.sha) /\ curr_entry.sha # new_entry.sha
     /\ get_entries_by_sha(m, new_entry.sha) = <<>>
     /\ new_entry.base_sha = Null
     /\ blobs[new_entry.sha].orig = 0

\* the timestamps get_entry and files are asked for
QueryTimes == 0..IntTime(MaxTime)

\* the row of path p committed last among those with commit_timestamp <= ts,
\* joined with its base_shas row, NoEntry without one
LastCommittedBy(m, p, ts) ==
  LET idx == RowsOf(m, p, ts) IN
  IF idx = {} THEN NoEntry
  ELSE JoinRow(m, m.rows[CHOOSE i \in idx : \A j \in idx : j <= i])

\* C28: the rows of a path are committed with non-decreasing commit_timestamp,
\* and get_entry(path, ts) returns the row committed last among the rows of
\* the path with commit_timestamp <= ts, ts being now when it is not given,
\* joined with its base_shas data, or None when there is no such row
C28_GetEntryReturnsLastCommitted ==
  LET m == manifest["s1"] IN
  m.open =>
    /\ \A i, j \in 1..Len(m.rows) :
         (i < j /\ m.rows[i].abs_file_name = m.rows[j].abs_file_name)
           => m.rows[i].commit_timestamp <= m.rows[j].commit_timestamp
    /\ \A p \in Paths :
         /\ get_entry_at(m, p, Null, now) = LastCommittedBy(m, p, IntTime(now))
         /\ \A ts \in QueryTimes : get_entry_at(m, p, ts, now) = LastCommittedBy(m, p, ts)

\* the paths whose row committed last at or before ts carries a sha
TrackedBy(m, ts) ==
  {p \in Paths : LastCommittedBy(m, p, ts) # NoEntry /\ LastCommittedBy(m, p, ts).sha # Null}

\* C29: files(ts) is exactly the set of the paths whose most recent row with
\* commit_timestamp <= ts has a non-null sha, ts being now when it is not
\* given: a path whose latest such row is a tombstone is absent, a path saved
\* again after a tombstone is present
C29_FilesAreThePathsLastSaved ==
  LET m == manifest["s1"] IN
  m.open =>
    /\ files_at(m, Null, now) = TrackedBy(m, IntTime(now))
    /\ \A ts \in QueryTimes : files_at(m, ts, now) = TrackedBy(m, ts)

\* the tombstone row of path p committed at time t
Tombstone(p, t) ==
  [abs_file_name |-> p, sha |-> Null, uid |-> Null, gid |-> Null, mode |-> Null,
   key_pair |-> Null, commit_timestamp |-> IntTime(t)]

\* C30: delete(path) on a path with at least one row appends exactly one
\* tombstone row, with null sha, uid, gid, mode and key_pair and
\* commit_timestamp = now, and changes no existing row; on a path without a
\* row it leaves both tables and the changed flag as they were
C30_DeleteAppendsOneTombstone ==
  /\ [](LET m == manifest["s1"] IN
        m.open => \A p \in Paths :
          IF PathRows(m, p) # {}
          THEN /\ delete(m, p, now).rows = Append(m.rows, Tombstone(p, now))
               /\ delete(m, p, now).base_shas = m.base_shas
          ELSE delete(m, p, now) = m)
  /\ [][\A p \in Paths : SessionDelete(p) =>
          /\ PathRows(manifest["s1"], p) # {}
          /\ manifest'["s1"].rows = Append(manifest["s1"].rows, Tombstone(p, now))
          /\ manifest'["s1"].base_shas = manifest["s1"].base_shas
          /\ manifest'["s1"].changed]_vars

\* C30 witness: delete has appended the tombstone of a path after its row
C30_TombstoneAfterRow ==
  LET m == manifest["s1"] IN
  /\ m.open /\ Len(m.rows) >= 2
  /\ m.rows[Len(m.rows)] = Tombstone("a", now)
  /\ m.rows[Len(m.rows) - 1].abs_file_name = "a"
  /\ m.rows[Len(m.rows) - 1].sha # Null

\* C31: when another process appends to, overwrites or truncates the file while
\* save_if_new reads it, each write changing the mtime, save_if_new either
\* raises FileChanged and commits nothing, or commits a row whose sha is the
\* SHA-256 of the plaintext sealed into the blob stored under that sha
C31_ShaOfRowIsShaOfSealedPlaintext ==
  reading.pc = "done" =>
    \/ reading.raised = "FileChanged" /\ ~reading.committed
    \/ /\ reading.raised = "none"
       /\ reading.committed
       /\ reading.blob_sha = reading.row_sha
       /\ reading.blob_plain = reading.row_sha

\* C32: cleanup_and_exit is installed for SIGINT and SIGTERM, and a store is
\* registered in _UNLOCKED_STORE, only while an unlock scope is active: once
\* unlock has ended, on any path, also one where do_cleanup has raised, both
\* signals have their default disposition and no store is registered
C32_DefaultsAfterEveryExit ==
  (Len(stack) = 1 /\ Main.pc = "idle") =>
    /\ UNLOCKED_STORE = "none"
    /\ \A sig \in Signals : sigdisp[sig] = "DFL"

\* C33: every diff is one step away from a full copy: in every state, the
\* blob named by the base_sha of any manifest row is a full copy, never a diff,
\* so that restore_entry of the row applies one diff to a full copy
C33_BaseIsFullCopy ==
  \A m \in ManifestsInUse :
    \A i \in ShaRows(m) :
      LET entry == JoinRow(m, m.rows[i])
      IN  (Truthy(entry.base_sha) /\ blobs[entry.base_sha] # NoBlob)
            => blobs[entry.base_sha].orig = 0

\* the base_sha and base_key_pair save_if_new hands to the ManifestEntry it
\* constructs for the file at path p: those of the known entry of the sha
\* (dedup), none for a new copy, those _write_diff picks for a diff, those of
\* the current entry for a change of metadata
BaseOfNewEntry(m, p) ==
  LET curr_entry == get_entry(m, p, IntTime(now))
      new_sha == ShaOf(files[p].content)
      entry_data == find_existing_entry_data(m, new_sha)
      of_data == [base_sha |-> entry_data.base_sha,
                  base_key_pair |-> entry_data.base_key_pair]
  IN IF curr_entry = NoEntry \/ ~Truthy(curr_entry.sha) THEN of_data
     ELSE IF new_sha # curr_entry.sha
     THEN IF p \in skip_diff_patterns \/ entry_data.found THEN of_data
          ELSE IF Truthy(curr_entry.base_sha)
          THEN [base_sha |-> curr_entry.base_sha,
                base_key_pair |-> curr_entry.base_key_pair]
          ELSE [base_sha |-> curr_entry.sha, base_key_pair |-> curr_entry.key_pair]
     ELSE [base_sha |-> curr_entry.base_sha, base_key_pair |-> curr_entry.base_key_pair]

\* C34: with use_encryption on or off, every ManifestEntry that save_if_new
\* reads back from the manifest or constructs, for a copy, a diff, a known sha
\* or a change of metadata, has base_sha set exactly when base_key_pair is
\* set, so the assertion of the constructor holds
C34_EntryAssertionHolds ==
  LET m == manifest["s1"] IN
  m.open =>
    /\ \A i \in 1..Len(m.rows) :
         EntryAssertion(JoinRow(m, m.rows[i]).base_sha, JoinRow(m, m.rows[i]).base_key_pair)
    /\ \A p \in Paths :
         files[p] # NoFile =>
           EntryAssertion(BaseOfNewEntry(m, p).base_sha, BaseOfNewEntry(m, p).base_key_pair)

\* a file after one step of a diff, as C35 words it: D gives F[0:p] + F[p+n:],
\* I gives F[0:p] + payload + F[p:], X gives F[0:p] + payload + F[p+n:]
Patched(F, step) ==
  LET p == step.pos
      n == step.len
  IN IF step.action = "D" THEN SubSeq(F, 1, p) \o SubSeq(F, p + n + 1, Len(F))
     ELSE IF step.action = "I" THEN SubSeq(F, 1, p) \o step.contents \o SubSeq(F, p + 1, Len(F))
     ELSE SubSeq(F, 1, p) \o step.contents \o SubSeq(F, p + n + 1, Len(F))

\* the steps of a diff carried out one after the other, each on the file the
\* earlier steps have left
RECURSIVE PatchedAll(_, _)
PatchedAll(F, steps) ==
  IF steps = <<>> THEN F ELSE PatchedAll(Patched(F, Head(steps)), Tail(steps))

\* C35: apply_diff on a well-formed diff writes, for one step at position p of
\* length n, the original with n bytes deleted at p (D), the payload inserted
\* at p (I) or n bytes at p replaced by the payload (X); for several steps it
\* writes what the steps give when carried out in turn, each position being
\* resolved against the original by the running offset, and the bytes of the
\* original behind the last step are copied unchanged
C35_ApplyDiffPatches ==
  codec.pc = "done" =>
    /\ codec.out = PatchedAll(codec.orig, codec.diff)
    /\ LET last == codec.diff[Len(codec.diff)]
           kept == Len(codec.out) - EndOf(last)
       IN SubSeq(codec.out, EndOf(last) + 1, Len(codec.out))
            = SubSeq(codec.orig, Len(codec.orig) - kept + 1, Len(codec.orig))

\* C35, its case: a diff of two steps, an insertion and then a deletion
\* further on, has been applied and bytes of the original were copied
\* between and behind the steps
C35_TwoStepsApplied ==
  /\ codec.pc = "done"
  /\ Len(codec.diff) = 2
  /\ codec.diff[1].action = "I" /\ codec.diff[2].action = "D"
  /\ codec.diff[2].pos > EndOf(codec.diff[1])
  /\ Len(codec.out) > EndOf(codec.diff[2])

\* C36: apply_diff ends with DiffParseError for every diff that is not well
\* formed: bytes left over that are no complete step, an I or X step whose
\* contents are shorter than its length at the end of the input, a step whose
\* action is not D, I or X
C36_MalformedDiffRaisesDiffParseError ==
  (codec.pc = "done" /\ codec.text \in MalformedDiffs) => codec.raised = "DiffParseError"

\* the manifest object that lock_manifest saved under the timestamp ts can be
\* opened through unlock_manifest
SavedManifestUnlocks(objs, keys, ts) ==
  \E o \in objs : o.ts = ts /\ unlock_manifest(o, keys, use_encryption, TRUE).open

\* C37: lock_manifest reads the manifest it has just saved back through
\* unlock_manifest and raises when that fails: whenever lock_manifest returns
\* to do_cleanup without an exception, the manifest object it saved can be
\* unlocked at that moment
C37_LockReturnsOnlyAfterReadBack ==
  [][(Top.pc \in {"dc_start", "dc_key"} /\ Top'.pc = "dc_rotate" /\ Len(stack') = Len(stack))
       => SavedManifestUnlocks(manifestObjs', keyObjs', Top'.ts)]_vars

\* the positions of the tombstones of a path that carry the second of clock t
TombstonesAt(m, path, t) ==
  {i \in 1..Len(m.rows) : /\ m.rows[i].abs_file_name = path
                          /\ m.rows[i].sha = Null
                          /\ m.rows[i].commit_timestamp = IntTime(t)}

\* the manifest of the running backup as it was when the walks ended: its
\* rows without the tombstones of this run (every run that changes the
\* manifest ends with a lock that takes the clock to the next second)
BeforeDeletions(m, t) ==
  [m EXCEPT !.rows = SelectSeq(m.rows, LAMBDA r : ~(r.sha = Null /\ r.commit_timestamp = IntTime(t)))]

\* the last row of a path is a tombstone
LastRowIsTombstone(m, path) ==
  LET idx == RowsOf(m, path, IntTime(MaxTime)) IN
  /\ idx # {}
  /\ m.rows[CHOOSE i \in idx : \A j \in idx : j <= i].sha = Null

\* the body of a backup run that is not a dry run has reached its end
BackupBodyDone ==
  Len(stack) = 1 /\ Main.pc = "deleting" /\ ~Main.dry_run /\ pending_del = {}

\* C38: at the end of a backup run that is not a dry run every path that was in
\* manifest.files() and was not yielded by a walk has a tombstone as its last
\* row, and no path that a walk yielded has received a tombstone in the run
C38_TombstonesForUnwalkedPathsOnly ==
  BackupBodyDone =>
    \A p \in Paths :
      /\ (p \notin marked /\ p \in manifest_files(BeforeDeletions(manifest["s1"], now), IntTime(now)))
           => LastRowIsTombstone(manifest["s1"], p)
      /\ p \in marked => TombstonesAt(manifest["s1"], p, now) = {}

\* a run has ended in which one tracked path was walked and another one, no
\* longer in the source tree, has received its tombstone
C38_OneWalkedOneTombstoned ==
  /\ BackupBodyDone
  /\ \E p \in marked : p \in manifest_files(manifest["s1"], IntTime(now))
  /\ \E q \in Paths \ marked :
       /\ q \in manifest_files(BeforeDeletions(manifest["s1"], now), IntTime(now))
       /\ TombstonesAt(manifest["s1"], q, now) # {}

\* the manifest object with the greatest timestamp
LatestLocked(objs) == CHOOSE o \in objs : \A x \in objs : x.ts <= o.ts

\* C39: when the store holds manifest objects, unlock opens the one whose
\* timestamp is numerically the greatest, the manifest of the most recent lock,
\* and with encryption on the key object of that timestamp is in the store
C39_UnlockOpensLatestManifest ==
  [][(Len(stack) = 1 /\ Main.pc = "idle" /\ Main'.pc = "scan" /\ manifestObjs # {})
       => /\ manifest'["s1"] = OpenManifest(LatestLocked(manifestObjs))
          /\ use_encryption => LatestLocked(manifestObjs).ts \in keyObjs]_vars

\* ---------------------------------------------------------- Manifest.search
\* the paths in the order of their names
PathOrder == <<"a", "b", "c">>
PathRank(p) == CHOOSE i \in 1..Len(PathOrder) : PathOrder[i] = p

\* the values of the argument like: none, a path, a path in capitals, and the
\* one-character wildcard of SQL
LikeValues == {"", "a", "b", "A", "_"}

\* lower() of a one-character string
Lower(x) == IF x = "A" THEN "a" ELSE x

\* abs_file_name like '%' || like || '%' of SQLite, for paths and patterns of
\* one character: _ stands for any character, and letters match without
\* regard to their case
sql_like(path, like) == like = "" \/ like = "_" \/ Lower(like) = Lower(path)

\* bool(x) of Python for an optional integer
PyTrue(x) == x # Null /\ x # 0

\* the orders in which SQLite may return the rows for order by abs_file_name,
\* commit_timestamp desc: rows of one path and one commit_timestamp come in
\* any order
RowOrders(m) ==
  LET n == Len(m.rows) IN
  {f \in [1..n -> 1..n] :
     /\ \A i, j \in 1..n : i # j => f[i] # f[j]
     /\ \A i \in 1..(n - 1) :
          LET r == m.rows[f[i]]
              q == m.rows[f[i + 1]]
          IN \/ PathRank(r.abs_file_name) < PathRank(q.abs_file_name)
             \/ /\ r.abs_file_name = q.abs_file_name
                /\ r.commit_timestamp >= q.commit_timestamp}

RECURSIVE SearchGroups(_, _, _, _)
\* search: the loop over the fetched rows
SearchGroups(rows, file_limit, history_limit, file_count) ==
  IF rows = <<>> \/ (PyTrue(file_limit) /\ file_count >= file_limit) THEN <<>>
  ELSE LET name == rows[1].abs_file_name
           j == CHOOSE k \in 1..Len(rows) :
                  /\ \A x \in 1..k : rows[x].abs_file_name = name
                  /\ k = Len(rows) \/ rows[k + 1].abs_file_name # name
           history == SubSeq(rows, 1, IF PyTrue(history_limit) THEN Min(j, history_limit)
                                      ELSE j)
       IN <<[abs_file_name |-> name, history |-> history]>>
            \o SearchGroups(SubSeq(rows, j + 1, Len(rows)), file_limit, history_limit,
                            file_count + 1)

\* Manifest.search at clock t, the rows being fetched in the order ord
search(m, ord, like, before_timestamp, after_timestamp, file_limit, history_limit, t) ==
  IF file_limit = 0 \/ history_limit = 0 THEN <<>>
  ELSE LET before == IF PyTrue(before_timestamp) THEN before_timestamp ELSE IntTime(t)
           after == IF PyTrue(after_timestamp) THEN after_timestamp ELSE 0
           sorted == [i \in 1..Len(m.rows) |-> m.rows[ord[i]]]
           hits == SelectSeq(sorted, LAMBDA r : /\ sql_like(r.abs_file_name, like)
                                                 /\ after <= r.commit_timestamp
                                                 /\ r.commit_timestamp <= before)
       IN SearchGroups([i \in 1..Len(hits) |-> JoinRow(m, hits[i])],
                       file_limit, history_limit, 0)

\* the arguments search is called with: None or a number
SearchLimits == {Null, 0, 1, 2}
SearchTimes == {Null} \cup QueryTimes

\* a path contains the string like, for paths and strings of one character
Contains(path, like) == like = "" \/ like = path

\* the first n elements of a sequence, all of them for None
FirstOf(seq, n) == IF n = Null THEN seq ELSE SubSeq(seq, 1, Min(n, Len(seq)))

RECURSIVE NewestFirst(_, _)
\* the rows at the positions S, the one committed last first, each joined
\* with its base_shas row
NewestFirst(m, S) ==
  IF S = {} THEN <<>>
  ELSE LET last == CHOOSE i \in S : \A j \in S : j <= i
       IN <<JoinRow(m, m.rows[last])>> \o NewestFirst(m, S \ {last})

\* the rows of a path that contains like, committed within the window from
\* after (0 when not given) to before (now when not given)
RowsInWindow(m, path, like, before_timestamp, after_timestamp, t) ==
  {i \in 1..Len(m.rows) :
     /\ m.rows[i].abs_file_name = path /\ Contains(path, like)
     /\ (IF after_timestamp = Null THEN 0 ELSE after_timestamp) <= m.rows[i].commit_timestamp
     /\ m.rows[i].commit_timestamp
          <= (IF before_timestamp = Null THEN IntTime(t) ELSE before_timestamp)}

\* the groups search is to return: one for each path with a row in the
\* window, in the order of the paths, each with its rows from the newest on,
\* cut to the limits
GroupsOfSearch(m, like, before_timestamp, after_timestamp, file_limit, history_limit, t) ==
  IF file_limit = 0 \/ history_limit = 0 THEN <<>>
  ELSE LET found == SelectSeq(PathOrder, LAMBDA p :
                      RowsInWindow(m, p, like, before_timestamp, after_timestamp, t) # {})
           kept == FirstOf(found, file_limit)
       IN [g \in 1..Len(kept) |->
            [abs_file_name |-> kept[g],
             history |-> FirstOf(NewestFirst(m, RowsInWindow(m, kept[g], like,
                                   before_timestamp, after_timestamp, t)), history_limit)]]

\* C40: search returns one group for each path that contains like and has a
\* row committed within the window, the groups in the order of the paths, the
\* rows of a group from the newest on, a file_limit other than 0 keeping the
\* first groups, a history_limit other than 0 the newest rows of each group,
\* and a limit of 0 giving the empty list
C40_SearchGroupsNewestFirst ==
  LET m == manifest["s1"] IN
  m.open =>
    \A ord \in RowOrders(m) : \A like \in LikeValues :
      \A before_timestamp, after_timestamp \in SearchTimes :
        \A file_limit, history_limit \in SearchLimits :
          search(m, ord, like, before_timestamp, after_timestamp, file_limit,
                 history_limit, now)
            = GroupsOfSearch(m, like, before_timestamp, after_timestamp, file_limit,
                             history_limit, now)

====
